---- MODULE Spec2Model ----
(***************************************************************************)
(* Model of the flood_mapper change-detection core:                        *)
(*   flood_mapper/flood_detection.py  compute_otsu_threshold,              *)
(*                                    detect_flood_extent,                 *)
(*                                    detect_flood_extent_s2_ndwi,         *)
(*                                    refine_flood_extent_with_topology    *)
(*   flood_mapper/utils.py            check_same_pixel_count,              *)
(*                                    calculate_area                       *)
(*   flood_mapper/data_ingestion.py   get_sentinel1_collection,            *)
(*                                    get_sentinel2_collection             *)
(*   flood_mapper/preprocessing.py    get_pre_and_post_sar_images,         *)
(*                                    get_pre_and_post_s2_images           *)
(* and of the orchestration around it:                                     *)
(*   flood_mapper/utils.py            load_aoi_from_geojson                *)
(*   scripts/run_flood_mapping.py     main                                 *)
(*                                                                         *)
(* An Earth Engine image is a band list, the set of its unmasked pixels    *)
(* and a value for each pixel.  A program run is one call of one function: *)
(* the initial state holds the arguments (for compute_otsu_threshold the   *)
(* answer of the backend's histogram reduction), drawn from bounded sets,  *)
(* and the action of the function records its locals at the return.        *)
(***************************************************************************)
EXTENDS Integers, Sequences, FiniteSets, TLC

VARIABLES
    call,                   \* the function called
    pc,                     \* "called", then "done"
    outcome,                \* "returned", or the exception type raised
    log,                    \* sequence of the messages printed, as tags
    \* compute_otsu_threshold
    histogram,              \* reduceRegion(...).getInfo()[band_name]
    rounding,               \* float rounding of the scores (see Roundings)
    sigma_b_squared,        \* the score array as np.argmax reads it
    threshold,              \* the value returned
    \* detect_flood_extent / detect_flood_extent_s2_ndwi
    pre_event,              \* pre_event_sar / pre_event_ndwi_mask
    post_event,             \* post_event_sar / post_event_ndwi_mask
    otsu_aoi,               \* the otsu_aoi argument (None: default region)
    sar_threshold_band,     \* the sar_threshold_band argument
    consistent,             \* result of check_same_pixel_count
    pre_for_processing,     \* pre_event_*_for_processing
    post_for_processing,    \* post_event_*_for_processing
    threshold_pre,
    threshold_post,
    water_pre,
    water_post,
    flood_extent,
    result,                 \* the value the call returns
    reductions,             \* reduceRegion(...).getInfo() round trips made
    \* refine_flood_extent_with_topology
    flooded_area_image,     \* the flooded_area_image argument
    refine_aoi,             \* the aoi argument
    min_connected_pixels,
    max_slope_percent,
    terrain,                \* ee.Algorithms.Terrain(DEM): the slope in degrees
    flooded_area_conn,      \* the image after step 1 of the last refinement
    refinements,            \* the images returned by the successive calls
    \* calculate_area
    area_image_arg,         \* the image argument
    scale,                  \* the scale argument
    stats,                  \* the answer of the sum reduction
    \* get_sentinel1_collection / get_sentinel2_collection
    catalog,                \* the images of the backend's collection
    start_date,
    end_date,
    cloud_pixel_percentage,
    collection,             \* s1_collection / s2_collection after the filters
    \* get_pre_and_post_sar_images / get_pre_and_post_s2_images
    event_date,             \* the event_date argument, a day
    search_window,          \* the search_window argument, in days
    pre_event_image,        \* pre_event_image / s2_pre_event_median
    post_event_image,       \* post_event_image / s2_post_event_median
    \* main of scripts/run_flood_mapping.py: arguments, backend, locals
    detection_method,
    export_results,
    aoi_geojson_path,       \* None, or the file found at the path
    otsu_aoi_path,          \* None, or the file found at the path
    s1_catalog,             \* the Sentinel-1 images of the backend
    s2_catalog,             \* the Sentinel-2 images of the backend
    AOI,
    otsu_aoi_geometry,
    sar_pre_event,
    sar_post_event,
    s2_pre_event,
    s2_post_event,
    ndwi_pre_event_mask,
    ndwi_post_event_mask,
    s1_flood_extent_image,
    s1_flooded_extend_image,
    s1_flooded_area_sqkm,
    s2_flood_extent_image,
    s2_flooded_extent_image,
    s2_flooded_area_sqkm,
    calls,                  \* the package functions called, with what they raised
    layers,                 \* the layers added to the map
    exports                 \* the export tasks started

vars == <<call, pc, outcome, log, histogram, rounding, sigma_b_squared, threshold,
          pre_event, post_event, otsu_aoi, sar_threshold_band, consistent,
          pre_for_processing, post_for_processing, threshold_pre,
          threshold_post, water_pre, water_post, flood_extent, result,
          reductions, flooded_area_image, refine_aoi, min_connected_pixels,
          max_slope_percent, terrain, flooded_area_conn, refinements,
          area_image_arg, scale, stats, catalog, start_date, end_date,
          cloud_pixel_percentage, collection, event_date, search_window,
          pre_event_image, post_event_image, detection_method, export_results,
          aoi_geojson_path, otsu_aoi_path, s1_catalog, s2_catalog, AOI,
          otsu_aoi_geometry, sar_pre_event, sar_post_event, s2_pre_event,
          s2_post_event, ndwi_pre_event_mask, ndwi_post_event_mask,
          s1_flood_extent_image, s1_flooded_extend_image, s1_flooded_area_sqkm,
          s2_flood_extent_image, s2_flooded_extent_image, s2_flooded_area_sqkm,
          calls, layers, exports>>

otsuVars == <<histogram, rounding, sigma_b_squared, threshold>>

detectInputs == <<pre_event, post_event, otsu_aoi, sar_threshold_band>>

detectVars == <<pre_event, post_event, otsu_aoi, sar_threshold_band, consistent,
                pre_for_processing, post_for_processing, threshold_pre,
                threshold_post, water_pre, water_post, flood_extent, result,
                reductions>>

refineVars == <<flooded_area_image, refine_aoi, min_connected_pixels, max_slope_percent,
                terrain, flooded_area_conn, refinements>>

areaVars == <<area_image_arg, scale, stats>>

ingestVars == <<catalog, start_date, end_date, cloud_pixel_percentage, collection>>

prepVars == <<event_date, search_window, pre_event_image, post_event_image>>

sarVars == <<sar_pre_event, sar_post_event, s1_flood_extent_image,
             s1_flooded_extend_image, s1_flooded_area_sqkm>>

s2Vars == <<s2_pre_event, s2_post_event, ndwi_pre_event_mask, ndwi_post_event_mask,
            s2_flood_extent_image, s2_flooded_extent_image, s2_flooded_area_sqkm>>

mainVars == <<detection_method, export_results, aoi_geojson_path, otsu_aoi_path,
              s1_catalog, s2_catalog, AOI, otsu_aoi_geometry, sarVars, s2Vars,
              calls, layers, exports>>

(***************************************************************************)
(* Bounds of the model.                                                    *)
(***************************************************************************)
\* longest histogram drawn as a backend answer
MaxBuckets == 4
\* largest count of one bucket in a drawn histogram
MaxCount == 3
\* number of pixels of the clip region
NPix == 3

\* Python None
None == [none |-> TRUE]
\* float NaN and infinity
NaN == [nan |-> TRUE]
Inf == [inf |-> TRUE]

(***************************************************************************)
(* Sequences of integers.                                                  *)
(***************************************************************************)
RECURSIVE SumSeq(_)
SumSeq(s) == IF s = <<>> THEN 0 ELSE s[1] + SumSeq(Tail(s))

RECURSIVE Gcd(_, _)
Gcd(a, b) == IF b = 0 THEN a ELSE Gcd(b, a % b)

RECURSIVE GcdSeq(_)
GcdSeq(s) == IF s = <<>> THEN 0 ELSE Gcd(s[1], GcdSeq(Tail(s)))

\* np.cumsum
cumsum(s) == [k \in 1..Len(s) |-> SumSeq(SubSeq(s, 1, k))]

RECURSIVE SortedSeq(_)
SortedSeq(S) ==
    IF S = {} THEN <<>>
    ELSE LET m == CHOOSE x \in S : \A y \in S : x <= y
         IN  <<m>> \o SortedSeq(S \ {m})

(***************************************************************************)
(* compute_otsu_threshold.                                                 *)
(*                                                                         *)
(* The floats of the code are modelled exactly.  probs is a vector of      *)
(* fractions num[i]/den in lowest terms (the float quotient hist/sum       *)
(* depends on the fraction only), NaN when the sum is 0.  With W = cumsum  *)
(* of num, M = cumsum of num*values and N = den, the score                 *)
(*   (mu_t*omega - mu)^2 / (omega*(1-omega) + 1e-10)                       *)
(* is  (M_T*W - M*N)^2 / (N^2 * (W*(N-W) + 1e-10*N^2)).  A finite score is *)
(* the record [num, den, rnd] standing for num / (den + 1e-10*N^2), N      *)
(* being the same for all buckets of one histogram; rnd is the rounding    *)
(* of the float evaluation, which decides between buckets whose exact      *)
(* scores are equal.                                                       *)
(***************************************************************************)
\* line 40: the default returned when there is no histogram
DefaultThreshold == -20

\* line 46: probs = hist / np.sum(hist)
probs(hist) ==
    LET s == SumSeq(hist)
        g == GcdSeq(hist)
    IN  IF s = 0
        THEN [nan |-> TRUE, num |-> hist, den |-> 0]
        ELSE [nan |-> FALSE,
              num |-> [i \in 1..Len(hist) |-> hist[i] \div g],
              den |-> s \div g]

\* lines 47-51: omega, mu, mu_t and the score of every bucket
BetweenClassScores(hist, values, rnd) ==
    LET p     == probs(hist)
        omega == cumsum(p.num)
        mu    == cumsum([i \in 1..Len(hist) |-> p.num[i] * values[i]])
        mu_t  == mu[Len(hist)]
        A(k)  == mu_t * omega[k] - mu[k] * p.den
    IN  [k \in 1..Len(hist) |->
            IF p.nan THEN NaN
            ELSE [num |-> A(k) * A(k),
                  den |-> omega[k] * (p.den - omega[k]),
                  rnd |-> rnd[k]]]

ZeroScore == [num |-> 0, den |-> 0, rnd |-> 0]

\* the mutant of HandleNanInf: lines 54-55 left out
HandleNanInfSkipped(sigma) == sigma

\* lines 54-55: sigma_b_squared[isnan] = 0; sigma_b_squared[isinf] = 0
HandleNanInf(sigma) ==
    [k \in 1..Len(sigma) |-> IF sigma[k] \in {NaN, Inf} THEN ZeroScore ELSE sigma[k]]

\* a < b for two finite scores of one histogram.  1e-10*N^2*|a.num - b.num|
\* is below 1 for every histogram of the model, so the 1e-10 of the
\* denominator decides only when the cross product is 0.
ScoreLess(a, b) ==
    LET cross == a.num * b.den - b.num * a.den
    IN  \/ cross < 0
        \/ cross = 0 /\ a.num < b.num
        \/ cross = 0 /\ a.num = b.num /\ a.rnd < b.rnd

\* the mutant of argmax: the last index of the maximum instead of the first
argmaxLast(sigma) ==
    CHOOSE k \in 1..Len(sigma) :
        /\ \A j \in 1..Len(sigma) : ~ScoreLess(sigma[k], sigma[j])
        /\ \A j \in (k + 1)..Len(sigma) : ScoreLess(sigma[j], sigma[k])

\* line 57: np.argmax, the first index of the maximum; a NaN counts as the
\* maximum (indices from 1 here)
argmax(sigma) ==
    IF \E k \in 1..Len(sigma) : sigma[k] = NaN
    THEN CHOOSE k \in 1..Len(sigma) :
            /\ sigma[k] = NaN
            /\ \A j \in 1..(k - 1) : sigma[j] # NaN
    ELSE CHOOSE k \in 1..Len(sigma) :
            /\ \A j \in 1..Len(sigma) : ~ScoreLess(sigma[k], sigma[j])
            /\ \A j \in 1..(k - 1) : ScoreLess(sigma[j], sigma[k])

\* The roundings the float evaluation of lines 46-51 can produce for a
\* histogram.  The evaluation is exact when every score is 0 (all the mass
\* in one bucket: probs is 0.0 and 1.0 only) and it gives equal floats for
\* equal cumulative sums (a bucket of count 0 after the first), so rounding
\* matters only between populated buckets whose exact scores tie for the
\* maximum: rnd is 0 or 1 there and 0 elsewhere.
Roundings(h) ==
    IF h = None THEN {<<>>}
    ELSE
    LET n     == Len(h.histogram)
        zero  == [k \in 1..n |-> 0]
        exact == BetweenClassScores(h.histogram, h.bucketMeans, zero)
        top   == IF probs(h.histogram).nan THEN {}
                 ELSE {k \in 1..n :
                         /\ exact[k].num > 0
                         /\ h.histogram[k] > 0
                         /\ \A j \in 1..n : ~ScoreLess(exact[k], exact[j])}
    IN  IF Cardinality(top) < 2 THEN {zero}
        ELSE {r \in [1..n -> {0, 1}] : \A k \in 1..n : k \notin top => r[k] = 0}

\* lines 42-55: the score array handed to np.argmax
ScoresForArgmax(h, rnd) ==
    HandleNanInf(BetweenClassScores(h.histogram, h.bucketMeans, rnd))

\* the mutant of NoHistogramThreshold: another default
NoHistogramThresholdZero == DefaultThreshold + 20

\* lines 38-40: the value returned when the histogram is None
NoHistogramThreshold == DefaultThreshold

\* lines 37-58 and 71: the value returned for the histogram h
OtsuThreshold(h, rnd) ==
    IF h = None THEN NoHistogramThreshold
    ELSE h.bucketMeans[argmax(ScoresForArgmax(h, rnd))]

\* the log of compute_otsu_threshold for the histogram h
OtsuLog(h) == IF h = None THEN <<"WARNING: No histogram data">> ELSE <<>>

(***************************************************************************)
(* Backend answers drawn for compute_otsu_threshold.                       *)
(***************************************************************************)
\* the values the bucket means of a drawn histogram are taken from
BucketMeanRange == -2..2

\* strictly increasing sequences of length n over S
IncreasingSeqs(S, n) ==
    {v \in [1..n -> S] : \A i \in 1..(n - 1) : v[i] < v[i + 1]}

\* the histogram of the scenario: values -25, -20, -10, 0, counts 5, 50, 50, 5
ScenarioHistogram ==
    [histogram |-> <<5, 50, 50, 5>>, bucketMeans |-> <<-25, -20, -10, 0>>]

HistogramInputs ==
    {None, ScenarioHistogram} \cup
    UNION {{[histogram |-> h, bucketMeans |-> v] :
                h \in [1..n -> 0..MaxCount],
                v \in IncreasingSeqs(BucketMeanRange, n)} : n \in 1..MaxBuckets}

(***************************************************************************)
(* The call of compute_otsu_threshold.                                     *)
(***************************************************************************)
\* nothing computed yet
NothingComputed ==
    /\ pc = "called"
    /\ outcome = "none"
    /\ log = <<>>
    /\ rounding = <<>>
    /\ sigma_b_squared = <<>>
    /\ threshold = None
    /\ consistent = None
    /\ pre_for_processing = None
    /\ post_for_processing = None
    /\ threshold_pre = None
    /\ threshold_post = None
    /\ water_pre = None
    /\ water_post = None
    /\ flood_extent = None
    /\ result = None
    /\ reductions = 0

\* no call of refine_flood_extent_with_topology
NoRefine ==
    /\ flooded_area_image = None
    /\ refine_aoi = None
    /\ min_connected_pixels = 0
    /\ max_slope_percent = 0
    /\ terrain = None
    /\ flooded_area_conn = None
    /\ refinements = <<>>

\* no call of calculate_area
NoArea ==
    /\ area_image_arg = None
    /\ scale = 0
    /\ stats = None

\* no call of get_sentinel1_collection or get_sentinel2_collection
NoIngest ==
    /\ catalog = {}
    /\ start_date = None
    /\ end_date = None
    /\ cloud_pixel_percentage = 0
    /\ collection = {}

\* no call of get_pre_and_post_sar_images or get_pre_and_post_s2_images
NoPrep ==
    /\ event_date = 0
    /\ search_window = 0
    /\ pre_event_image = None
    /\ post_event_image = None

\* no run of main
NoMain ==
    /\ detection_method = "none"
    /\ export_results = FALSE
    /\ aoi_geojson_path = None
    /\ otsu_aoi_path = None
    /\ s1_catalog = {}
    /\ s2_catalog = {}
    /\ AOI = None
    /\ otsu_aoi_geometry = None
    /\ sar_pre_event = None
    /\ sar_post_event = None
    /\ s2_pre_event = None
    /\ s2_post_event = None
    /\ ndwi_pre_event_mask = None
    /\ ndwi_post_event_mask = None
    /\ s1_flood_extent_image = None
    /\ s1_flooded_extend_image = None
    /\ s1_flooded_area_sqkm = 0
    /\ s2_flood_extent_image = None
    /\ s2_flooded_extent_image = None
    /\ s2_flooded_area_sqkm = 0
    /\ calls = <<>>
    /\ layers = <<>>
    /\ exports = <<>>

\* no call of a detection function
NoDetect ==
    /\ histogram = None
    /\ pre_event = None
    /\ post_event = None
    /\ otsu_aoi = None
    /\ sar_threshold_band = "none"

\* a call of compute_otsu_threshold: the backend answers the histogram
\* reduction of lines 30-35 with histogram
InitOtsu ==
    /\ call = "compute_otsu_threshold"
    /\ histogram \in HistogramInputs
    /\ pre_event = None
    /\ post_event = None
    /\ otsu_aoi = None
    /\ sar_threshold_band = "none"
    /\ NothingComputed
    /\ NoRefine /\ NoArea /\ NoIngest
    /\ NoPrep /\ NoMain

\* compute_otsu_threshold, lines 37-71
ComputeOtsuThreshold ==
    /\ call = "compute_otsu_threshold"
    /\ pc = "called"
    /\ \E rnd \in Roundings(histogram) :
        /\ rounding' = rnd
        /\ sigma_b_squared' = IF histogram = None THEN <<>>
                              ELSE ScoresForArgmax(histogram, rnd)
        /\ threshold' = OtsuThreshold(histogram, rnd)
    /\ log' = OtsuLog(histogram)
    /\ pc' = "done"
    /\ outcome' = "returned"
    /\ UNCHANGED <<call, histogram>>
    /\ UNCHANGED detectVars
    /\ UNCHANGED <<refineVars, areaVars, ingestVars>>
    /\ UNCHANGED <<prepVars, mainVars>>

NextOtsu == ComputeOtsuThreshold

SpecOtsu == InitOtsu /\ [][NextOtsu]_vars

(***************************************************************************)
(* Earth Engine images.  An image is [bands, mask, val]: the band names,   *)
(* the set of unmasked pixels and the pixel values (0 at a masked pixel).  *)
(* The bands of an image share one mask, and val holds the values of the   *)
(* band the detection thresholds (for 'VV_minus_VH' the difference         *)
(* VV - VH that lines 138-143 add).  Both inputs are clipped to the same   *)
(* region (preprocessing.py lines 57-58 and 78-79): Pixels.                *)
(***************************************************************************)
Pixels == 1..NPix

Img(bands, m, f) ==
    [bands |-> bands, mask |-> m, val |-> [p \in DOMAIN f |-> IF p \in m THEN f[p] ELSE 0]]

\* a Python tuple, and the test for an ee.Image
Tuple(items) == [tuple |-> items]

IsImage(x) == "bands" \in DOMAIN x

\* ee.Image.geometry(): the footprint, the clip region
geometry(image) == DOMAIN image.val

\* ee.Image.mask(): 1 at the unmasked pixels, 0 at the others
mask(image) ==
    Img(image.bands, DOMAIN image.val,
        [p \in DOMAIN image.val |-> IF p \in image.mask THEN 1 ELSE 0])

\* ee.Image.And
And(a, b) ==
    Img(a.bands, a.mask \cap b.mask,
        [p \in DOMAIN a.val |-> IF a.val[p] # 0 /\ b.val[p] # 0 THEN 1 ELSE 0])

\* ee.Image.Or
Or(a, b) ==
    Img(a.bands, a.mask \cap b.mask,
        [p \in DOMAIN a.val |-> IF a.val[p] # 0 \/ b.val[p] # 0 THEN 1 ELSE 0])

\* ee.Image.updateMask: a pixel stays unmasked where the mask image is
\* unmasked and positive
updateMask(image, m) ==
    Img(image.bands, {p \in image.mask : p \in m.mask /\ m.val[p] > 0}, image.val)

\* ee.Image.lt(constant)
lt(image, c) ==
    Img(image.bands, image.mask,
        [p \in DOMAIN image.val |-> IF image.val[p] < c THEN 1 ELSE 0])

\* ee.Image.subtract
subtract(a, b) ==
    Img(a.bands, a.mask \cap b.mask, [p \in DOMAIN a.val |-> a.val[p] - b.val[p]])

\* the mutant of selfMask: every non-zero pixel kept, negative ones too
selfMaskNonZero(image) ==
    Img(image.bands, {p \in image.mask : image.val[p] # 0}, image.val)

\* the mutant of selfMask: no masking at all
selfMaskOmitted(image) == image

\* ee.Image.selfMask, as lines 165 and 210 state it: pixels whose value is
\* 0 or negative are masked out
selfMask(image) ==
    Img(image.bands, {p \in image.mask : image.val[p] > 0}, image.val)

\* ee.Image.select and ee.Image.rename
select(image, band) == [image EXCEPT !.bands = <<band>>]
rename(image, name) == [image EXCEPT !.bands = <<name>>]

\* ee.Image.bandNames().getInfo()
bandNames(image) == {image.bands[i] : i \in 1..Len(image.bands)}

\* reduceRegion(ee.Reducer.count(), region): the unmasked pixels in region
PixelCount(image, region) == Cardinality(image.mask \cap region)

\* reduceRegion(ee.Reducer.histogram(), region).getInfo()[band]: None when
\* the region holds no unmasked pixel, else one bucket per value present
\* (buckets of count 0 between them change no score and no argmax)
ReduceRegionHistogram(image, region) ==
    LET px == image.mask \cap region
        vs == SortedSeq({image.val[p] : p \in px})
    IN  IF px = {} THEN None
        ELSE [histogram   |-> [k \in 1..Len(vs) |->
                                  Cardinality({p \in px : image.val[p] = vs[k]})],
              bucketMeans |-> vs]

(***************************************************************************)
(* utils.check_same_pixel_count                                            *)
(***************************************************************************)
\* the mutant of check_same_pixel_count: the comparison inverted
check_same_pixel_count_inverted(image1, image2, region) ==
    PixelCount(image1, region) # PixelCount(image2, region)

\* utils.py lines 116-141
check_same_pixel_count(image1, image2, region) ==
    PixelCount(image1, region) = PixelCount(image2, region)

(***************************************************************************)
(* detect_flood_extent and detect_flood_extent_s2_ndwi                     *)
(***************************************************************************)
\* a geometry: the pixels of the clip region it covers
Geometry(S) == [region |-> S]

\* lines 96-102: the default Otsu polygon over Lac Togo, which lies inside
\* the default main AOI of scripts/run_flood_mapping.py
LacTogo == Geometry({1})

\* lines 94-106
aoi_hist_region(aoi) == IF aoi = None THEN LacTogo ELSE aoi

\* the mutant of common_mask: Or instead of And
common_mask_or(pre, post) == Or(mask(pre), mask(post))

\* lines 120 and 198: common_mask = pre.mask().And(post.mask())
common_mask(pre, post) == And(mask(pre), mask(post))

\* the mutant of Reconcile: the mismatch is not reported
ReconcileSilent(pre, post) ==
    IF check_same_pixel_count(pre, post, geometry(pre))
    THEN [consistent |-> TRUE, pre |-> pre, post |-> post,
          log |-> <<"consistent pixel counts">>]
    ELSE [consistent |-> FALSE,
          pre  |-> updateMask(pre, common_mask(pre, post)),
          post |-> updateMask(post, common_mask(pre, post)),
          log  |-> <<>>]

\* the mutant of Reconcile: the warning is given but the originals are used
ReconcileUnrestricted(pre, post) ==
    IF check_same_pixel_count(pre, post, geometry(pre))
    THEN [consistent |-> TRUE, pre |-> pre, post |-> post,
          log |-> <<"consistent pixel counts">>]
    ELSE [consistent |-> FALSE, pre |-> pre, post |-> post,
          log  |-> <<"WARNING: different pixel counts">>]

\* the mutant of Reconcile: the common mask is applied whatever the counts
ReconcileAlwaysRestricts(pre, post) ==
    [consistent |-> check_same_pixel_count(pre, post, geometry(pre)),
     pre  |-> updateMask(pre, common_mask(pre, post)),
     post |-> updateMask(post, common_mask(pre, post)),
     log  |-> IF check_same_pixel_count(pre, post, geometry(pre))
              THEN <<"consistent pixel counts">>
              ELSE <<"WARNING: different pixel counts">>]

\* lines 109-125 and 186-203: the pixel-count check and, on a mismatch, the
\* warning and the restriction of both images to the common mask
Reconcile(pre, post) ==
    IF check_same_pixel_count(pre, post, geometry(pre))
    THEN [consistent |-> TRUE, pre |-> pre, post |-> post,
          log |-> <<"consistent pixel counts">>]
    ELSE [consistent |-> FALSE,
          pre  |-> updateMask(pre, common_mask(pre, post)),
          post |-> updateMask(post, common_mask(pre, post)),
          log  |-> <<"WARNING: different pixel counts">>]

\* the mutant of BandAvailable: the derived band is looked up by its name
BandAvailableNamed(image, band) == band \in bandNames(image)

\* lines 128-147: is the threshold band available in both images
BandAvailable(image, band) ==
    IF band = "VV_minus_VH"
    THEN "VV" \in bandNames(image) /\ "VH" \in bandNames(image)
    ELSE band \in bandNames(image)

\* lines 159-160
WaterMask(image, band, thr) == lt(select(image, band), thr)

\* lines 166 and 211
FloodExtent(w_pre, w_post, name) == rename(selfMask(subtract(w_post, w_pre)), name)

\* the values of a SAR band (dB)
SarValues == {-25, -20, -15}

\* the band lists of the two images, the threshold band of a call and the
\* pixel values drawn for it: all of SarValues for band 'VH', two of them for
\* the derived band, one where the band check raises before a value is read
BandCases ==
    {[pre |-> <<"VV", "VH">>, post |-> <<"VV", "VH">>, band |-> "VH",
      values |-> SarValues],
     [pre |-> <<"VV", "VH">>, post |-> <<"VV", "VH">>, band |-> "VV_minus_VH",
      values |-> {-25, -15}],
     [pre |-> <<"VH">>, post |-> <<"VV", "VH">>, band |-> "VV_minus_VH",
      values |-> {-15}],
     [pre |-> <<"VV", "VH">>, post |-> <<"VH">>, band |-> "VV_minus_VH",
      values |-> {-15}],
     [pre |-> <<"VH">>, post |-> <<"VV", "VH">>, band |-> "VV",
      values |-> {-15}],
     [pre |-> <<"VV", "VH">>, post |-> <<"VH">>, band |-> "VV",
      values |-> {-15}]}

ImagesOver(bands, values) ==
    UNION {{Img(bands, m, f) : f \in [Pixels -> values]} : m \in SUBSET Pixels}

\* binary water masks, as ndwi.gt(0) gives them (run_flood_mapping.py 146-147)
NdwiMasks(name) == ImagesOver(<<name>>, {0, 1})

\* the otsu_aoi arguments: None, a region outside the images, one pixel of
\* them, all of them
OtsuAoiInputs == {None, Geometry({}), Geometry({NPix}), Geometry(Pixels)}

\* a call of detect_flood_extent on two images, or with None for an image
InitDetectSar ==
    /\ call = "detect_flood_extent"
    /\ otsu_aoi \in OtsuAoiInputs
    /\ \E bc \in BandCases :
        /\ sar_threshold_band = bc.band
        /\ \/ /\ pre_event \in ImagesOver(bc.pre, bc.values)
              /\ post_event \in ImagesOver(bc.post, bc.values)
           \/ /\ bc.band = "VH"
              /\ pre_event \in {None, Img(bc.pre, Pixels, [p \in Pixels |-> -15])}
              /\ post_event \in {None, Img(bc.post, Pixels, [p \in Pixels |-> -25])}
              /\ pre_event = None \/ post_event = None
    /\ histogram = None
    /\ NothingComputed
    /\ NoRefine /\ NoArea /\ NoIngest
    /\ NoPrep /\ NoMain

\* a call of detect_flood_extent_s2_ndwi on two masks, or with None for one
InitDetectS2 ==
    /\ call = "detect_flood_extent_s2_ndwi"
    /\ pre_event \in NdwiMasks("ndwi_water_pre") \cup {None}
    \* another mask, None, or the pre-event mask itself passed twice
    /\ post_event \in NdwiMasks("ndwi_water_post") \cup {None, pre_event}
    /\ otsu_aoi = None
    /\ sar_threshold_band = "none"
    /\ histogram = None
    /\ NothingComputed
    /\ NoRefine /\ NoArea /\ NoIngest
    /\ NoPrep /\ NoMain

InitDetect == InitDetectSar \/ InitDetectS2

\* lines 94-106: which Otsu region is used
OtsuAoiLog(aoi) == <<IF aoi = None THEN "default Otsu AOI" ELSE "provided Otsu AOI">>

\* detect_flood_extent, lines 93-168.  With None for an image, line 114 or
\* the reduction at utils.py line 124 raises AttributeError.
DetectFloodExtent ==
    /\ call = "detect_flood_extent"
    /\ pc = "called"
    /\ pc' = "done"
    /\ IF pre_event = None \/ post_event = None
       THEN /\ outcome' = "AttributeError"
            /\ log' = OtsuAoiLog(otsu_aoi)
            \* line 114 raises on a pre-event None; with only the post-event
            \* None the count of the pre-event image (utils.py 116-122) is
            \* fetched before line 124 raises
            /\ reductions' = IF pre_event = None THEN 0 ELSE 1
            /\ UNCHANGED <<consistent, pre_for_processing, post_for_processing,
                           threshold_pre, threshold_post, water_pre, water_post,
                           flood_extent, result>>
       ELSE
       \E rec \in {Reconcile(pre_event, post_event)} :
       \E h_pre \in {ReduceRegionHistogram(rec.pre, aoi_hist_region(otsu_aoi).region)} :
       \E h_post \in {ReduceRegionHistogram(rec.post, aoi_hist_region(otsu_aoi).region)} :
            /\ consistent' = rec.consistent
            /\ pre_for_processing' = rec.pre
            /\ post_for_processing' = rec.post
            /\ IF /\ BandAvailable(rec.pre, sar_threshold_band)
                  /\ BandAvailable(rec.post, sar_threshold_band)
               THEN \E r_pre \in Roundings(h_pre), r_post \in Roundings(h_post) :
                    \E t_pre \in {OtsuThreshold(h_pre, r_pre)} :
                    \E t_post \in {OtsuThreshold(h_post, r_post)} :
                    \E w_pre \in {WaterMask(rec.pre, sar_threshold_band, t_pre)} :
                    \E w_post \in {WaterMask(rec.post, sar_threshold_band, t_post)} :
                    \E flood \in {FloodExtent(w_pre, w_post, "flood_extent_sar")} :
                        \* equal histograms are evaluated to equal floats
                        /\ h_pre = h_post => r_pre = r_post
                        /\ threshold_pre' = t_pre
                        /\ threshold_post' = t_post
                        /\ water_pre' = w_pre
                        /\ water_post' = w_post
                        /\ flood_extent' = flood
                        \* line 168
                        /\ result' = Tuple(<<w_pre, w_post, flood>>)
                        \* two counts and two histograms
                        /\ reductions' = 4
                        /\ log' = OtsuAoiLog(otsu_aoi) \o rec.log
                                     \o OtsuLog(h_pre) \o OtsuLog(h_post)
                        /\ outcome' = "returned"
               ELSE /\ outcome' = "ValueError"
                    /\ log' = OtsuAoiLog(otsu_aoi) \o rec.log
                    /\ reductions' = 2
                    /\ UNCHANGED <<threshold_pre, threshold_post, water_pre,
                                   water_post, flood_extent, result>>
    /\ UNCHANGED <<call, detectInputs>>
    /\ UNCHANGED otsuVars
    /\ UNCHANGED <<refineVars, areaVars, ingestVars>>
    /\ UNCHANGED <<prepVars, mainVars>>

\* detect_flood_extent_s2_ndwi, lines 183-213
DetectFloodExtentS2Ndwi ==
    /\ call = "detect_flood_extent_s2_ndwi"
    /\ pc = "called"
    /\ pc' = "done"
    /\ IF pre_event = None \/ post_event = None
       THEN /\ outcome' = "ValueError"
            /\ log' = <<>>
            /\ UNCHANGED <<consistent, pre_for_processing, post_for_processing,
                           flood_extent, result, reductions>>
       ELSE \E rec \in {Reconcile(pre_event, post_event)} :
            \E flood \in {FloodExtent(rec.pre, rec.post, "flood_extent_ndwi")} :
            /\ consistent' = rec.consistent
            /\ pre_for_processing' = rec.pre
            /\ post_for_processing' = rec.post
            /\ flood_extent' = flood
            \* line 213
            /\ result' = flood
            /\ reductions' = 2
            /\ log' = rec.log
            /\ outcome' = "returned"
    /\ UNCHANGED <<threshold_pre, threshold_post, water_pre, water_post>>
    /\ UNCHANGED <<call, detectInputs>>
    /\ UNCHANGED otsuVars
    /\ UNCHANGED <<refineVars, areaVars, ingestVars>>
    /\ UNCHANGED <<prepVars, mainVars>>

NextDetect == DetectFloodExtent \/ DetectFloodExtentS2Ndwi

SpecDetect == InitDetect /\ [][NextDetect]_vars

(***************************************************************************)
(* Properties of compute_otsu_threshold, checked under SpecOtsu.           *)
(***************************************************************************)
OtsuReturned == call = "compute_otsu_threshold" /\ pc = "done" /\ outcome = "returned"

\* the indices of the buckets of h with a non-zero count
Populated(h) == {k \in 1..Len(h.histogram) : h.histogram[k] > 0}

\* the count maxima of h: populated buckets with no larger count beside them
Modes(h) ==
    LET c == h.histogram
        n == Len(c)
    IN  {k \in Populated(h) :
            /\ k = 1 \/ c[k - 1] <= c[k]
            /\ k = n \/ c[k + 1] <= c[k]}

MinOf(S) == CHOOSE x \in S : \A y \in S : x <= y
MaxOf(S) == CHOOSE x \in S : \A y \in S : y <= x

\* C1: whenever the histogram reduction yields no histogram (None), the
\* function returns exactly -20.0 and raises nothing.
C1_NoHistogramReturnsDefault ==
    (call = "compute_otsu_threshold" /\ pc = "done" /\ histogram = None)
        => (outcome = "returned" /\ threshold = -20)

C1_Witness == OtsuReturned /\ histogram = None

\* C2 as stated: when exactly one bucket has a non-zero count, wherever it
\* stands, the threshold is the value of that bucket.
C2_Original ==
    (OtsuReturned /\ histogram # None /\ Cardinality(Populated(histogram)) = 1)
        => \A k \in Populated(histogram) : threshold = histogram.bucketMeans[k]

\* C2 amended: when exactly one bucket has a non-zero count, every score is
\* 0 (none is NaN) and the threshold is the value of the FIRST bucket of the
\* histogram; it is the value of the non-zero bucket when no bucket of
\* count 0 precedes that bucket.
C2_SingleBucketReturnsFirstBucket ==
    (OtsuReturned /\ histogram # None /\ Cardinality(Populated(histogram)) = 1)
        => /\ \A k \in 1..Len(sigma_b_squared) :
                /\ sigma_b_squared[k] \notin {NaN, Inf}
                /\ sigma_b_squared[k].num = 0
           /\ threshold = histogram.bucketMeans[1]
           /\ 1 \in Populated(histogram)
                => \A k \in Populated(histogram) : threshold = histogram.bucketMeans[k]

C2_Witness ==
    /\ OtsuReturned /\ histogram # None
    /\ Populated(histogram) = {2}
    /\ Len(histogram.histogram) = 3
    /\ threshold = histogram.bucketMeans[1]

\* C3 as stated: for a histogram with two count maxima, at bucket values
\* m1 < m2, the threshold t satisfies m1 < t < m2.
C3_Original ==
    (OtsuReturned /\ histogram # None /\ Cardinality(Modes(histogram)) = 2)
        => /\ histogram.bucketMeans[MinOf(Modes(histogram))] < threshold
           /\ threshold < histogram.bucketMeans[MaxOf(Modes(histogram))]

\* C3 amended: for a histogram with at least two populated buckets (every
\* two-mode histogram is one) the threshold t is the value of a populated
\* bucket with lo <= t < hi, lo and hi being the values of the lowest and of
\* the highest populated bucket; it need not lie strictly between the count
\* maxima.  For bucket values -25, -20, -10, 0 with counts 5, 50, 50, 5 the
\* threshold is -20, the lower mode itself: m1 <= t < m2 there.
C3_ThresholdSplitsPopulatedRange ==
    /\ (OtsuReturned /\ histogram # None /\ Cardinality(Populated(histogram)) >= 2)
        => /\ \E k \in Populated(histogram) : threshold = histogram.bucketMeans[k]
           /\ histogram.bucketMeans[MinOf(Populated(histogram))] <= threshold
           /\ threshold < histogram.bucketMeans[MaxOf(Populated(histogram))]
    /\ (OtsuReturned /\ histogram = ScenarioHistogram) => threshold = -20

C3_Witness ==
    /\ OtsuReturned /\ histogram = ScenarioHistogram
    /\ Modes(histogram) = {2, 3}
    /\ threshold = -20

\* C4: for every non-empty histogram every NaN or infinite score is replaced
\* by 0 before the argmax, and the threshold is the bucket value at the
\* first index reaching the maximal score: a bucket value, never NaN.
C4_ScoresFiniteThresholdIsFirstMax ==
    (OtsuReturned /\ histogram # None)
        => /\ Len(sigma_b_squared) = Len(histogram.histogram)
           /\ \A k \in 1..Len(sigma_b_squared) : sigma_b_squared[k] \notin {NaN, Inf}
           /\ \E k \in 1..Len(sigma_b_squared) :
                /\ threshold = histogram.bucketMeans[k]
                /\ \A j \in 1..Len(sigma_b_squared) :
                        ~ScoreLess(sigma_b_squared[k], sigma_b_squared[j])
                /\ \A j \in 1..(k - 1) :
                        ScoreLess(sigma_b_squared[j], sigma_b_squared[k])

\* all counts 0: the scores were NaN before the replacement
C4_Witness ==
    /\ OtsuReturned /\ histogram # None
    /\ Len(histogram.histogram) = 2
    /\ Populated(histogram) = {}
    /\ threshold = histogram.bucketMeans[1]

(***************************************************************************)
(* Properties of the two detection functions, checked under SpecDetect.    *)
(***************************************************************************)
IsSar == call = "detect_flood_extent"
IsS2  == call = "detect_flood_extent_s2_ndwi"

\* the call is over and both images were given
DetectDone == pc = "done" /\ (IsSar \/ IsS2) /\ pre_event # None /\ post_event # None

DetectReturned == DetectDone /\ outcome = "returned"

MismatchWarning == "WARNING: different pixel counts"

Logged(msg) == \E i \in 1..Len(log) : log[i] = msg

\* the unmasked-pixel counts of the two inputs differ
CountsDiffer == Cardinality(pre_event.mask) # Cardinality(post_event.mask)

\* the pixels unmasked in both inputs
CommonPixels == pre_event.mask \cap post_event.mask

\* the threshold band is in both inputs (nothing to check for the NDWI path)
BandOk ==
    IsS2 \/ /\ BandAvailable(pre_event, sar_threshold_band)
            /\ BandAvailable(post_event, sar_threshold_band)

\* the binary water masks that are differenced
BinaryPre  == IF IsSar THEN water_pre ELSE pre_event
BinaryPost == IF IsSar THEN water_post ELSE post_event

\* C5: for binary pre and post water masks the flood extent of both paths
\* holds exactly the pixels unmasked in both masks with post = 1 and
\* pre = 0 (post AND NOT pre), each with value 1; pixels of difference -1
\* or 0 are excluded.
C5_FloodExtentIsPostAndNotPre ==
    DetectReturned =>
        \A p \in Pixels :
            /\ p \in flood_extent.mask <=>
                    /\ p \in BinaryPre.mask /\ p \in BinaryPost.mask
                    /\ BinaryPost.val[p] = 1 /\ BinaryPre.val[p] = 0
            /\ p \in flood_extent.mask => flood_extent.val[p] = 1
            /\ BinaryPre.val[p] \in {0, 1} /\ BinaryPost.val[p] \in {0, 1}

\* a SAR call with a newly flooded pixel, a pixel of difference -1 and a
\* pixel of difference 0
C5_Witness ==
    /\ DetectReturned /\ IsSar
    /\ flood_extent.mask # {}
    /\ \E q \in water_pre.mask \cap water_post.mask :
            water_pre.val[q] = 1 /\ water_post.val[q] = 0
    /\ \E r \in water_pre.mask \cap water_post.mask :
            water_pre.val[r] = water_post.val[r]

\* C6 as stated: the two rasters that are thresholded and differenced have
\* identical valid-pixel sets, or the mismatch was flagged and both were
\* restricted to the common mask.
C6_Original ==
    DetectReturned =>
        \/ pre_event.mask = post_event.mask
        \/ /\ Logged(MismatchWarning)
           /\ pre_for_processing.mask = CommonPixels
           /\ post_for_processing.mask = CommonPixels

\* C7: when the unmasked-pixel counts differ, both rasters are restricted to
\* the AND of the two masks: both then have the intersection of the two
\* original valid sets as valid set (no larger than either count), their
\* values there unchanged, and the result is reported as inconsistent.
C7_MismatchRestrictsToIntersection ==
    (DetectDone /\ CountsDiffer) =>
        /\ consistent = FALSE
        /\ Logged(MismatchWarning)
        /\ pre_for_processing.mask = CommonPixels
        /\ post_for_processing.mask = CommonPixels
        /\ \A p \in CommonPixels :
                /\ pre_for_processing.val[p] = pre_event.val[p]
                /\ post_for_processing.val[p] = post_event.val[p]
        /\ Cardinality(pre_for_processing.mask) <= Cardinality(pre_event.mask)
        /\ Cardinality(pre_for_processing.mask) <= Cardinality(post_event.mask)

\* counts 2 and 1, the common set smaller than both
C7_Witness ==
    /\ DetectReturned /\ CountsDiffer
    /\ Cardinality(pre_event.mask) = 2
    /\ Cardinality(post_event.mask) = 1
    /\ pre_for_processing.mask = {}
    /\ post_for_processing.mask = {}

\* C8: check_same_pixel_count(a, a, region) is True, so a detection call on
\* (a, a) does not take the common-mask branch: no warning, both rasters
\* used as given.
C8_SelfComparisonConsistent ==
    (DetectDone /\ pre_event = post_event) =>
        /\ consistent = TRUE
        /\ ~Logged(MismatchWarning)
        /\ pre_for_processing = pre_event
        /\ post_for_processing = post_event

C8_Witness ==
    /\ DetectDone /\ pre_event = post_event
    /\ pre_event.mask # {} /\ pre_event.mask # Pixels
    /\ consistent = TRUE

C10_IdenticalInputsNoFlood ==
    (DetectReturned /\ pre_event = post_event) => flood_extent.mask = {}

\* a SAR call on (a, a) in which a has water and land pixels
C10_Witness ==
    /\ DetectReturned /\ IsSar /\ pre_event = post_event
    /\ \E p, q \in water_pre.mask : water_pre.val[p] = 1 /\ water_pre.val[q] = 0
    /\ flood_extent.mask = {}

\* C11 as stated: detect_flood_extent returns one image whose only band is
\* 'flood_extent_sar'.
C11_Original ==
    (DetectReturned /\ IsSar) =>
        /\ IsImage(result)
        /\ result = flood_extent
        /\ flood_extent.bands = <<"flood_extent_sar">>

\* both rasters constant over one non-empty footprint: -15 before, -25 after
ConstantLandThenWater ==
    /\ DetectReturned /\ IsSar
    /\ sar_threshold_band = "VH"
    /\ pre_event.mask # {}
    /\ pre_event.mask = post_event.mask
    /\ \A p \in pre_event.mask : pre_event.val[p] = -15 /\ post_event.val[p] = -25

\* the Otsu reference region holds an unmasked pixel of the rasters
OtsuRegionHasData == aoi_hist_region(otsu_aoi).region \cap pre_event.mask # {}

\* C12 as stated: land-like -15 everywhere before and water-like -25
\* everywhere after give a non-empty flood extent for any Otsu region.
C12_Original == ConstantLandThenWater => flood_extent.mask # {}

\* C12, amended: for such rasters the flood extent is the whole footprint
\* when the Otsu region holds none of their unmasked pixels (both thresholds
\* are the default -20), and is empty when it holds one (each threshold is
\* then the raster's own single value, which no pixel is below).
C12_ConstantRastersFloodIffNoOtsuData ==
    ConstantLandThenWater =>
        IF OtsuRegionHasData
        THEN /\ threshold_pre = -15 /\ threshold_post = -25
             /\ flood_extent.mask = {}
        ELSE /\ threshold_pre = -20 /\ threshold_post = -20
             /\ flood_extent.mask = pre_event.mask
             /\ \A p \in flood_extent.mask : flood_extent.val[p] = 1

\* the test's case: default Otsu region without data, every pixel flooded
C12_Witness ==
    /\ ConstantLandThenWater
    /\ otsu_aoi = None
    /\ ~OtsuRegionHasData
    /\ Cardinality(flood_extent.mask) >= 2

\* C13 as stated: with None for the pre-event or the post-event input both
\* entry points raise ValueError before any backend reduction.
C13_Original ==
    (pc = "done" /\ (IsSar \/ IsS2) /\ (pre_event = None \/ post_event = None)) =>
        /\ outcome = "ValueError"
        /\ reductions = 0

\* the position of the first entry msg of the log (0 when there is none)
FirstLogged(msg) ==
    IF Logged(msg) THEN MinOf({i \in 1..Len(log) : log[i] = msg}) ELSE 0

NoHistogramWarning == "WARNING: No histogram data"

\* an input as the code has to use it: restricted to the common pixels when
\* the counts differ, unchanged when they are equal
AfterReconciliation(img) ==
    IF CountsDiffer THEN [img EXCEPT !.mask = CommonPixels,
                                     !.val = [p \in DOMAIN img.val |->
                                        IF p \in CommonPixels THEN img.val[p] ELSE 0]]
    ELSE img

\* the thresholds compute_otsu_threshold can return for img over the Otsu region
ThresholdsOf(img) ==
    LET h == ReduceRegionHistogram(img, aoi_hist_region(otsu_aoi).region)
    IN  {OtsuThreshold(h, r) : r \in Roundings(h)}

\* C23: in detect_flood_extent the pixel-count check, and on a mismatch the
\* restriction to the common mask, come before both Otsu thresholds: the
\* message of the check precedes every message of compute_otsu_threshold,
\* both thresholds are the Otsu thresholds of the reconciled rasters and the
\* water masks are those rasters below their thresholds; a call that ends
\* before the thresholds has done the check already.
C23_CheckBeforeThresholds ==
    (DetectDone /\ IsSar) =>
        /\ consistent = ~CountsDiffer
        /\ pre_for_processing = AfterReconciliation(pre_event)
        /\ post_for_processing = AfterReconciliation(post_event)
        /\ Logged(MismatchWarning) <=> CountsDiffer
        /\ Logged("consistent pixel counts") <=> ~CountsDiffer
        /\ \A i \in 1..Len(log) :
                log[i] = NoHistogramWarning =>
                    /\ FirstLogged(MismatchWarning) < i
                    /\ FirstLogged("consistent pixel counts") < i
                    /\ FirstLogged(MismatchWarning)
                            + FirstLogged("consistent pixel counts") > 0
        /\ outcome = "returned" =>
                /\ threshold_pre \in ThresholdsOf(AfterReconciliation(pre_event))
                /\ threshold_post \in ThresholdsOf(AfterReconciliation(post_event))
                /\ water_pre.mask = AfterReconciliation(pre_event).mask
                /\ water_post.mask = AfterReconciliation(post_event).mask
                /\ \A p \in water_pre.mask :
                        water_pre.val[p] = 1 <=> pre_event.val[p] < threshold_pre
                /\ \A p \in water_post.mask :
                        water_post.val[p] = 1 <=> post_event.val[p] < threshold_post

\* a mismatch after which the pre-event threshold is not one the original
\* raster gives: its only pixel of the Otsu region is outside the common mask
C23_Witness ==
    /\ DetectReturned /\ IsSar /\ CountsDiffer
    /\ threshold_pre \notin ThresholdsOf(pre_event)
    /\ FirstLogged(MismatchWarning) > 0
    /\ FirstLogged(MismatchWarning) < FirstLogged(NoHistogramWarning)

\* C24: when the two counts are equal both detection paths use the input
\* rasters unchanged: no common mask is applied, no warning is given, and
\* the water masks and the flood extent are computed from the originals.
C24_EqualCountsUseOriginals ==
    (DetectDone /\ ~CountsDiffer) =>
        /\ consistent = TRUE
        /\ ~Logged(MismatchWarning)
        /\ Logged("consistent pixel counts")
        /\ pre_for_processing = pre_event
        /\ post_for_processing = post_event
        /\ (outcome = "returned" /\ IsSar) =>
                /\ water_pre.mask = pre_event.mask
                /\ water_post.mask = post_event.mask
                /\ threshold_pre \in ThresholdsOf(pre_event)
                /\ threshold_post \in ThresholdsOf(post_event)
        /\ (outcome = "returned" /\ IsS2) =>
                flood_extent =
                    FloodExtent(pre_event, post_event, "flood_extent_ndwi")

\* equal counts over different footprints: applying the common mask would
\* have changed both rasters
C24_Witness ==
    /\ DetectReturned /\ ~CountsDiffer
    /\ pre_event.mask # post_event.mask
    /\ Cardinality(pre_event.mask) = 2
    /\ pre_for_processing.mask = pre_event.mask
    /\ post_for_processing.mask = post_event.mask

\* the band check of lines 128-147 written out for the two inputs
BandMissing ==
    LET pre_bands  == {pre_event.bands[i] : i \in 1..Len(pre_event.bands)}
        post_bands == {post_event.bands[i] : i \in 1..Len(post_event.bands)}
    IN  IF sar_threshold_band = "VV_minus_VH"
        THEN ~({"VV", "VH"} \subseteq pre_bands /\ {"VV", "VH"} \subseteq post_bands)
        ELSE sar_threshold_band \notin pre_bands \/ sar_threshold_band \notin post_bands

\* C27: detect_flood_extent raises ValueError before any Otsu threshold is
\* computed whenever the selected band is unavailable: 'VV_minus_VH' when
\* 'VV' or 'VH' is missing from the pre- or the post-event image, any other
\* band when it is missing from one of them; with the band available in
\* both the call does not raise ValueError.
C27_BandCheckRaisesBeforeThresholds ==
    (DetectDone /\ IsSar) =>
        /\ outcome = "ValueError" <=> BandMissing
        /\ BandMissing =>
                /\ threshold_pre = None /\ threshold_post = None
                /\ water_pre = None /\ flood_extent = None
                \* the two counts only, no histogram
                /\ reductions = 2
                /\ ~Logged(NoHistogramWarning)
        /\ ~BandMissing => outcome = "returned"

\* the derived band asked of a post-event image without 'VV', over an Otsu
\* region without data: a threshold computation would have been logged
C27_Witness ==
    /\ DetectDone /\ IsSar
    /\ sar_threshold_band = "VV_minus_VH"
    /\ BandMissing
    /\ post_event.bands = <<"VH">>
    /\ otsu_aoi = Geometry({})
    /\ outcome = "ValueError"

(***************************************************************************)
(* refine_flood_extent_with_topology.  The flood mask and the terrain lie  *)
(* on a grid of NGrid pixels, numbered row by row, GridWidth to a row.     *)
(***************************************************************************)
\* number of pixels of the grid
NGrid == 7

\* pixels in a row of the grid
GridWidth == 4

\* how many times the refinement is applied in a row
MaxRefines == 2

GridPixels == 1..NGrid

Row(p) == (p - 1) \div GridWidth
Col(p) == (p - 1) % GridWidth

\* 8-connectivity: the neighbours of a pixel, diagonals included
Adjacent(p, q) ==
    /\ p # q
    /\ Row(p) - Row(q) \in {-1, 0, 1}
    /\ Col(p) - Col(q) \in {-1, 0, 1}

\* the pixels of S reachable from the set C through neighbours in S
RECURSIVE Grow(_, _)
Grow(S, C) ==
    LET N == {q \in S \ C : \E c \in C : Adjacent(c, q)}
    IN  IF N = {} THEN C ELSE Grow(S, C \cup N)

\* the connected component of p in S
Component(S, p) == Grow(S, {p})

\* ee.Image.connectedPixelCount() with its defaults: at most maxSize
\* neighbours are counted
maxSize == 100

\* ee.Image.connectedPixelCount(): at each unmasked pixel the number of
\* 8-connected unmasked pixels of the same value, capped at maxSize
connectedPixelCount(img) ==
    Img(img.bands, img.mask,
        [p \in DOMAIN img.val |->
            IF p \in img.mask
            THEN LET n == Cardinality(Component({q \in img.mask : img.val[q] = img.val[p]}, p))
                 IN  IF n > maxSize THEN maxSize ELSE n
            ELSE 0])

\* the mutant of gte: strictly greater
gteStrict(img, c) ==
    Img(img.bands, img.mask, [p \in DOMAIN img.val |-> IF img.val[p] > c THEN 1 ELSE 0])

\* ee.Image.gte(constant)
gte(img, c) ==
    Img(img.bands, img.mask, [p \in DOMAIN img.val |-> IF img.val[p] >= c THEN 1 ELSE 0])

\* ee.Image.clip(region)
clip(img, region) == Img(img.bands, img.mask \cap region.region, img.val)

\* lines 233-234
RefineStep1(img, min_pixels) ==
    updateMask(img, gte(connectedPixelCount(img), min_pixels))

\* the mutant of SlopeBelow: at most the parameter
SlopeBelowOrEqual(slope, max_slope) ==
    Img(slope.bands, slope.mask,
        [p \in DOMAIN slope.val |-> IF slope.val[p] <= max_slope THEN 1 ELSE 0])

\* line 250: slope.lt(max_slope_percent), degrees against the parameter as given
SlopeBelow(slope, max_slope) == lt(slope, max_slope)

\* the mutant of RefineStep2: the slope mask replaces the flood mask
RefineStep2SlopeOnly(conn, dem_terrain, region, max_slope) ==
    SlopeBelow(select(clip(dem_terrain, region), "slope"), max_slope)

\* lines 240-250
RefineStep2(conn, dem_terrain, region, max_slope) ==
    updateMask(conn, SlopeBelow(select(clip(dem_terrain, region), "slope"), max_slope))

\* the mutant of RefinedBand: the input's band name kept
RefinedBandKept(img) == img.bands[1]

\* line 252
RefinedBand(img) == "effective_flood_extent"

\* flood masks as the detections return them: every unmasked pixel is 1
FloodMasks(name) ==
    {Img(<<name>>, m, [p \in GridPixels |-> 1]) : m \in SUBSET GridPixels}

\* slopes in degrees: flat, the default parameter, the parameter of the test
SlopeValues == {0, 5, 10}

\* terrains: one slope everywhere but at one pixel
Terrains ==
    {Img(<<"elevation", "slope", "aspect", "hillshade">>, GridPixels,
         [p \in GridPixels |-> IF p = s THEN v ELSE b]) :
        s \in GridPixels, v \in SlopeValues, b \in SlopeValues}

\* min_connected_pixels: the scenario's 4 and the default 8
MinConnectedInputs == {4, 8}

\* max_slope_percent: the default 5 and the test's 10
MaxSlopeInputs == {5, 10}

\* the aoi: the whole grid, or all of it but its last pixel
AoiInputs == {Geometry(GridPixels), Geometry(GridPixels \ {NGrid})}

\* a call of refine_flood_extent_with_topology on a flood mask of either
\* detection, or on the tuple detect_flood_extent returns
InitRefine ==
    /\ call = "refine_flood_extent_with_topology"
    /\ \/ /\ flooded_area_image \in FloodMasks("flood_extent_sar")
                                    \cup FloodMasks("flood_extent_ndwi")
          /\ refine_aoi \in AoiInputs
          /\ min_connected_pixels \in MinConnectedInputs
          /\ max_slope_percent \in MaxSlopeInputs
          /\ terrain \in Terrains
       \/ /\ \E m \in FloodMasks("flood_extent_sar") :
                flooded_area_image = Tuple(<<m, m, m>>)
          /\ refine_aoi = Geometry(GridPixels)
          /\ min_connected_pixels = 8
          /\ max_slope_percent = 5
          /\ terrain \in {t \in Terrains : \A p \in GridPixels : t.val[p] = 0}
    /\ flooded_area_conn = None
    /\ refinements = <<>>
    /\ NoDetect /\ NothingComputed /\ NoArea /\ NoIngest
    /\ NoPrep /\ NoMain

\* one call on the image img
RefineCall(img) ==
    /\ log' = <<"Refining flood extent">>
    /\ IF IsImage(img)
       THEN \E conn \in {RefineStep1(img, min_connected_pixels)} :
            \E topo \in {RefineStep2(conn, terrain, refine_aoi, max_slope_percent)} :
            \E out \in {rename(topo, RefinedBand(topo))} :
                /\ flooded_area_conn' = conn
                /\ refinements' = Append(refinements, out)
                /\ result' = out
                /\ outcome' = "returned"
       ELSE \* line 233: a tuple has no connectedPixelCount
            /\ outcome' = "AttributeError"
            /\ UNCHANGED <<flooded_area_conn, refinements, result>>
    /\ pc' = "done"
    /\ UNCHANGED <<call, flooded_area_image, refine_aoi, min_connected_pixels,
                   max_slope_percent, terrain>>
    /\ UNCHANGED <<otsuVars, detectInputs, consistent, pre_for_processing,
                   post_for_processing, threshold_pre, threshold_post, water_pre,
                   water_post, flood_extent, reductions>>
    /\ UNCHANGED <<areaVars, ingestVars>>
    /\ UNCHANGED <<prepVars, mainVars>>

\* refine_flood_extent_with_topology(flooded_area_image, aoi, ...)
RefineFloodExtentWithTopology ==
    /\ call = "refine_flood_extent_with_topology"
    /\ pc = "called"
    /\ RefineCall(flooded_area_image)

\* the refinement applied again, with the same parameters, to its own result
RefineAgain ==
    /\ call = "refine_flood_extent_with_topology"
    /\ pc = "done"
    /\ outcome = "returned"
    /\ Len(refinements) < MaxRefines
    /\ RefineCall(result)

NextRefine == RefineFloodExtentWithTopology \/ RefineAgain

SpecRefine == InitRefine /\ [][NextRefine]_vars

(***************************************************************************)
(* Properties of refine_flood_extent_with_topology, checked under          *)
(* SpecRefine.                                                             *)
(***************************************************************************)
RefineReturned ==
    /\ call = "refine_flood_extent_with_topology"
    /\ pc = "done"
    /\ outcome = "returned"

\* the image the last call was given
LastRefineInput ==
    IF Len(refinements) = 1 THEN flooded_area_image
    ELSE refinements[Len(refinements) - 1]

\* the scenario's mask: a 2x2 patch and an isolated pixel, on flat terrain,
\* min_connected_pixels = 4
Patch == {1, 2, GridWidth + 1, GridWidth + 2}

PatchAndSpeckle ==
    /\ RefineReturned
    /\ Len(refinements) = 1
    /\ flooded_area_image.mask = Patch \cup {4}
    /\ min_connected_pixels = 4
    /\ refine_aoi.region = GridPixels
    /\ \A p \in GridPixels : terrain.val[p] = 0

\* C14: after step 1 exactly the flooded pixels whose 8-connected component
\* of flooded pixels has at least min_connected_pixels pixels are left, so a
\* pixel of the result always lies in such a component; of a 2x2 patch and
\* an isolated pixel on flat terrain, min_connected_pixels = 4 keeps exactly
\* the four pixels of the patch.
C14_SmallComponentsRemoved ==
    RefineReturned =>
        /\ \A p \in GridPixels :
              p \in flooded_area_conn.mask <=>
                  /\ p \in LastRefineInput.mask
                  /\ Cardinality(Component(LastRefineInput.mask, p))
                        >= min_connected_pixels
        /\ \A p \in result.mask :
              Cardinality(Component(LastRefineInput.mask, p)) >= min_connected_pixels
        /\ PatchAndSpeckle =>
              /\ flooded_area_conn.mask = Patch
              /\ result.mask = Patch

C14_Witness ==
    /\ PatchAndSpeckle
    /\ Cardinality(flooded_area_image.mask) = 5
    /\ Cardinality(result.mask) = 4
    /\ 4 \notin result.mask

\* C15: every refinement is a subset of the mask it was applied to: the
\* first of the flood mask, the second (same aoi and parameters) of the
\* first; no pixel is added and the pixels left keep their value.
C15_RefinementOnlyRemoves ==
    RefineReturned =>
        \A i \in 1..Len(refinements) :
            \E before \in {IF i = 1 THEN flooded_area_image ELSE refinements[i - 1]} :
                /\ refinements[i].mask \subseteq before.mask
                /\ \A p \in refinements[i].mask : refinements[i].val[p] = before.val[p]

\* both inclusions strict: the second refinement removes what the slope
\* filter of the first left too small
C15_Witness ==
    /\ RefineReturned
    /\ Len(refinements) = 2
    /\ refinements[1].mask # flooded_area_image.mask
    /\ refinements[2].mask # refinements[1].mask
    /\ refinements[1].mask # {}

C17_RefinedBandName ==
    RefineReturned =>
        /\ result.bands = <<"effective_flood_extent">>
        /\ result.bands # flooded_area_image.bands
        /\ \A i \in 1..Len(refinements) :
              refinements[i].bands = <<"effective_flood_extent">>

C17_Witness ==
    /\ RefineReturned
    /\ flooded_area_image.bands = <<"flood_extent_ndwi">>
    /\ result.bands = <<"effective_flood_extent">>
    /\ result.mask # {}

(***************************************************************************)
(* utils.calculate_area.  A getInfo() dictionary is a function from keys   *)
(* to values; a value is Number(n) or None (JSON null).                    *)
(***************************************************************************)
Number(n) == [number |-> n]

EmptyDict == [k \in {} |-> None]

\* dict.get(key, default)
Get(dict, key, default) == IF key \in DOMAIN dict THEN dict[key] ELSE default

\* square metres in a square kilometre: the divisor of line 58
SqMPerSqKm == 1000000

\* total_area_sq_m / 1e6: the quotient, kept as the pair it is made of
SqKm(total_area_sq_m) == [sq_m |-> total_area_sq_m, per_sq_km |-> SqMPerSqKm]

\* ee.Image.pixelArea() on the pixels D at the given scale: every pixel
\* unmasked, its value its ground area in square metres
pixelArea(D, s) == Img(<<"area">>, D, [p \in D |-> s * s])

\* the mutant of AreaImage: every unmasked pixel counted, whatever its value
AreaImageAllUnmasked(img, s) ==
    Img(<<"area">>, img.mask, [p \in DOMAIN img.val |-> s * s])

\* line 38: area_image = ee.Image.pixelArea().updateMask(image)
AreaImage(img, s) == updateMask(pixelArea(DOMAIN img.val, s), img)

RECURSIVE SumOver(_, _)
SumOver(S, f) ==
    IF S = {} THEN 0
    ELSE LET p == CHOOSE q \in S : TRUE IN f[p] + SumOver(S \ {p}, f)

\* lines 42-48: reduceRegion(ee.Reducer.sum(), region).getInfo().  Over
\* unmasked pixels the answer is their sum; what the backend answers when
\* the region holds no unmasked pixel is not fixed by the code: 0, null, or
\* no entry for the band.
ReduceRegionSumAnswers(img, region) ==
    LET px == img.mask \cap region
    IN  IF px # {}
        THEN {[area |-> Number(SumOver(px, img.val))]}
        ELSE {[area |-> Number(0)], [area |-> None], EmptyDict}

\* the scales: the default 10 and the 30 of the tests' reductions
ScaleInputs == {10, 30}

\* binary masks and flood masks on the grid
BinaryMasks(name) ==
    UNION {{Img(<<name>>, m, f) : f \in [GridPixels -> {0, 1}]} : m \in SUBSET GridPixels}

InitArea ==
    /\ call = "calculate_area"
    /\ area_image_arg \in BinaryMasks("effective_flood_extent")
    /\ scale \in ScaleInputs
    /\ stats = None
    /\ NoDetect /\ NothingComputed /\ NoRefine /\ NoIngest
    /\ NoPrep /\ NoMain

\* calculate_area, lines 38-58
CalculateArea ==
    /\ call = "calculate_area"
    /\ pc = "called"
    /\ \E area_image \in {AreaImage(area_image_arg, scale)} :
       \E answer \in ReduceRegionSumAnswers(area_image, geometry(area_image_arg)) :
       \E total_area_sq_m \in {Get(answer, area_image.bands[1], Number(0))} :
            /\ stats' = answer
            /\ IF total_area_sq_m = None
               THEN \* line 58: None / 1e6
                    /\ outcome' = "TypeError"
                    /\ result' = None
               ELSE /\ outcome' = "returned"
                    /\ result' = SqKm(total_area_sq_m.number)
    /\ pc' = "done"
    /\ reductions' = 1
    /\ UNCHANGED <<call, log, area_image_arg, scale>>
    /\ UNCHANGED <<otsuVars, detectInputs, consistent, pre_for_processing,
                   post_for_processing, threshold_pre, threshold_post, water_pre,
                   water_post, flood_extent>>
    /\ UNCHANGED <<refineVars, ingestVars>>
    /\ UNCHANGED <<prepVars, mainVars>>

NextArea == CalculateArea

SpecArea == InitArea /\ [][NextArea]_vars

(***************************************************************************)
(* Properties of calculate_area, checked under SpecArea.                   *)
(***************************************************************************)
AreaDone == call = "calculate_area" /\ pc = "done"

\* the pixels that are unmasked with value 1
FloodedPixels == {p \in area_image_arg.mask : area_image_arg.val[p] = 1}

\* the sum reduction gave no data: no entry, or null
NoAreaData == stats = EmptyDict \/ stats = [area |-> None]

\* C18 as stated: for a fully masked mask, and whenever the reduction has
\* no entry or null for the area band, calculate_area returns 0.0 and raises
\* nothing.
C18_Original ==
    (AreaDone /\ (area_image_arg.mask = {} \/ NoAreaData)) =>
        /\ outcome = "returned"
        /\ result = SqKm(0)

\* C19: whenever some pixel is unmasked with value 1, calculate_area returns
\* the sum of the ground areas of those pixels divided by 1e6: masked pixels
\* and pixels of value 0 add nothing, a mask that is 1 everywhere gives the
\* area of its footprint, and no result is negative.
C19_AreaIsSumOverFloodedPixels ==
    /\ (AreaDone /\ FloodedPixels # {}) =>
            /\ outcome = "returned"
            /\ result = SqKm(Cardinality(FloodedPixels) * scale * scale)
    /\ (AreaDone /\ outcome = "returned") =>
            /\ result.sq_m = Cardinality(FloodedPixels) * scale * scale
            /\ result.sq_m >= 0
            /\ result.per_sq_km = 1000000

\* a mask with a masked pixel, a pixel of value 0 and pixels of value 1
C19_Witness ==
    /\ AreaDone /\ outcome = "returned"
    /\ scale = 10
    /\ area_image_arg.mask # GridPixels
    /\ \E p \in area_image_arg.mask : area_image_arg.val[p] = 0
    /\ Cardinality(FloodedPixels) = 3
    /\ result.sq_m = 300

(***************************************************************************)
(* data_ingestion.get_sentinel1_collection and get_sentinel2_collection.   *)
(* The backend's collection is a set of images with the properties the     *)
(* filters read; a day is a number; a date argument is an ee.Date or a     *)
(* string, well formed ('YYYY-MM-DD') or not.                              *)
(***************************************************************************)
\* most images in the backend's collection
MaxImages == 3

\* the days images are taken on: the day the window starts and the next
Days == {1, 2}

EeDate(d) == [kind |-> "ee.Date", day |-> d, well_formed |-> TRUE]
DateStr(d) == [kind |-> "str", day |-> d, well_formed |-> TRUE]
BadDateStr == [kind |-> "str", day |-> 0, well_formed |-> FALSE]

\* the properties of a Sentinel-1 image that lines 65-68 read
S1Properties ==
    {[instrumentMode |-> im.mode, resolution_meters |-> im.res,
      in_roi |-> b, date |-> d] :
        im \in {[mode |-> "IW", res |-> 10], [mode |-> "EW", res |-> 10],
                [mode |-> "IW", res |-> 40]},
        b \in BOOLEAN, d \in Days}

S1Image(i, pr) ==
    [id |-> i, instrumentMode |-> pr.instrumentMode,
     resolution_meters |-> pr.resolution_meters, in_roi |-> pr.in_roi,
     date |-> pr.date]

\* the properties of a Sentinel-2 image that lines 146-148 read
S2Properties ==
    {[CLOUDY_PIXEL_PERCENTAGE |-> c, in_roi |-> b, date |-> d] :
        c \in {10, 30, 50}, b \in BOOLEAN, d \in Days}

S2Image(i, pr) ==
    [id |-> i, CLOUDY_PIXEL_PERCENTAGE |-> pr.CLOUDY_PIXEL_PERCENTAGE,
     in_roi |-> pr.in_roi, date |-> pr.date]

\* a collection of the backend: the images 1..n with the properties f
S1Catalog(n, f) == {S1Image(i, f[i]) : i \in 1..n}

S2Catalog(n, f) == {S2Image(i, f[i]) : i \in 1..n}

\* the date arguments: the window starts on day 1 and ends before day 2 or
\* after it
DateArgs ==
    {[start |-> EeDate(1), end |-> EeDate(e)] : e \in {2, 3}} \cup
    {[start |-> DateStr(1), end |-> DateStr(e)] : e \in {2, 3}} \cup
    {[start |-> BadDateStr, end |-> EeDate(2)],
     [start |-> EeDate(1), end |-> BadDateStr]}

InitIngestS1 ==
    /\ call = "get_sentinel1_collection"
    /\ \E n \in 0..MaxImages : \E f \in [1..n -> S1Properties] :
            catalog = S1Catalog(n, f)
    /\ \E a \in DateArgs : start_date = a.start /\ end_date = a.end
    /\ cloud_pixel_percentage = 0

InitIngestS2 ==
    /\ call = "get_sentinel2_collection"
    /\ \E n \in 0..MaxImages : \E f \in [1..n -> S2Properties] :
            catalog = S2Catalog(n, f)
    /\ \E a \in DateArgs : start_date = a.start /\ end_date = a.end
    \* the default
    /\ cloud_pixel_percentage = 30

InitIngest ==
    /\ InitIngestS1 \/ InitIngestS2
    /\ collection = {}
    /\ NoDetect /\ NothingComputed /\ NoRefine /\ NoArea
    /\ NoPrep /\ NoMain

\* filterDate(start, end): the start included, the end excluded
filterDate(images, start, end) ==
    {x \in images : start.day <= x.date /\ x.date < end.day}

\* filterBounds(roi)
filterBounds(images) == {x \in images : x.in_roi}

\* the mutant of TooFew: only an empty collection
TooFewOnlyEmpty(size) == size < 1

\* lines 71 and 151: size().getInfo() < 2
TooFew(size) == size < 2

\* lines 64-69
S1Filtered(images, start, end) ==
    filterDate(
        filterBounds({x \in images : x.instrumentMode = "IW"
                                     /\ x.resolution_meters = 10}),
        start, end)

\* lines 144-149
S2Filtered(images, start, end, cloud) ==
    filterDate(
        filterBounds({x \in images : x.CLOUDY_PIXEL_PERCENTAGE < cloud}),
        start, end)

\* what is common to the two functions once the collection is filtered
SizeCheck(filtered) ==
    /\ collection' = filtered
    /\ reductions' = 1
    /\ IF TooFew(Cardinality(filtered))
       THEN /\ outcome' = "ValueError"
            /\ log' = <<>>
            /\ UNCHANGED result
       ELSE /\ outcome' = "returned"
            /\ log' = <<"Total images available">>
            /\ result' = filtered

IngestFrame ==
    /\ pc' = "done"
    /\ UNCHANGED <<call, catalog, start_date, end_date, cloud_pixel_percentage>>
    /\ UNCHANGED <<otsuVars, detectInputs, consistent, pre_for_processing,
                   post_for_processing, threshold_pre, threshold_post, water_pre,
                   water_post, flood_extent>>
    /\ UNCHANGED <<refineVars, areaVars>>
    /\ UNCHANGED <<prepVars, mainVars>>

\* get_sentinel1_collection, lines 59-78
GetSentinel1Collection ==
    /\ call = "get_sentinel1_collection"
    /\ pc = "called"
    /\ IF ~start_date.well_formed \/ ~end_date.well_formed
       THEN \* lines 59-62: datetime.strptime raises ValueError
            /\ outcome' = "ValueError"
            /\ UNCHANGED <<collection, reductions, log, result>>
       ELSE SizeCheck(S1Filtered(catalog, start_date, end_date))
    /\ IngestFrame

\* get_sentinel2_collection, lines 144-158
GetSentinel2Collection ==
    /\ call = "get_sentinel2_collection"
    /\ pc = "called"
    /\ IF ~start_date.well_formed \/ ~end_date.well_formed
       THEN \* the string goes to the backend as it is, which rejects it at
            \* size().getInfo()
            /\ outcome' = "EEException"
            /\ UNCHANGED <<collection, reductions, log, result>>
       ELSE SizeCheck(S2Filtered(catalog, start_date, end_date,
                                 cloud_pixel_percentage))
    /\ IngestFrame

NextIngest == GetSentinel1Collection \/ GetSentinel2Collection

SpecIngest == InitIngest /\ [][NextIngest]_vars

(***************************************************************************)
(* Properties of the two retrieval functions, checked under SpecIngest.    *)
(***************************************************************************)
IngestDone ==
    /\ call \in {"get_sentinel1_collection", "get_sentinel2_collection"}
    /\ pc = "done"

DatesWellFormed == start_date.well_formed /\ end_date.well_formed

\* the images of the backend's collection that pass the filters
PassingImages ==
    {x \in catalog :
        /\ x.in_roi
        /\ start_date.day <= x.date /\ x.date < end_date.day
        /\ IF call = "get_sentinel1_collection"
           THEN x.instrumentMode = "IW" /\ x.resolution_meters = 10
           ELSE x.CLOUDY_PIXEL_PERCENTAGE < cloud_pixel_percentage}

\* C20 as stated: ValueError if and only if a collection was filtered and
\* holds fewer than 2 images; otherwise the collection is returned.
C20_Original ==
    IngestDone =>
        /\ outcome = "ValueError" <=>
                (reductions = 1 /\ Cardinality(collection) < 2)
        /\ (reductions = 1 /\ Cardinality(collection) >= 2) =>
                (outcome = "returned" /\ result = collection)

\* C20, amended: with date arguments that are ee.Date values or well-formed
\* strings both functions raise ValueError if and only if fewer than 2
\* images pass the filters, and otherwise return the filtered collection,
\* which then holds at least 2 images; get_sentinel1_collection raises
\* ValueError for a malformed date string too, before it filters anything.
C20_ValueErrorIffFewerThanTwo ==
    IngestDone =>
        /\ DatesWellFormed =>
              /\ collection = PassingImages
              /\ outcome = "ValueError" <=> Cardinality(PassingImages) < 2
              /\ outcome # "ValueError" =>
                    /\ outcome = "returned"
                    /\ result = PassingImages
                    /\ Cardinality(result) >= 2
        /\ (~DatesWellFormed /\ call = "get_sentinel1_collection") =>
              /\ outcome = "ValueError"
              /\ reductions = 0

\* three images in the backend's collection, exactly two pass and are returned
C20_Witness ==
    /\ IngestDone
    /\ call = "get_sentinel1_collection"
    /\ outcome = "returned"
    /\ Cardinality(catalog) = 3
    /\ Cardinality(result) = 2

(***************************************************************************)
(* preprocessing.get_pre_and_post_sar_images and                           *)
(* preprocessing.get_pre_and_post_s2_images.  The client holds an ee.Image *)
(* as a handle on a computation of the backend; the images of the          *)
(* collection the computation draws on are recorded in the handle, and a   *)
(* handle that draws on none stands for no image.                          *)
(***************************************************************************)
EeImage(ids) == [ee |-> "Image", of |-> ids, smoothed |-> FALSE, clipped |-> FALSE]

\* does the handle stand for an image of the collection
Exists(h) == h.of # {}

\* bool(x) of Python: None is false, a tuple is false only when empty, and
\* an Earth Engine object is true (ee.ComputedObject defines neither
\* __bool__ nor __len__)
Truthy(x) ==
    IF x = None THEN FALSE
    ELSE IF "tuple" \in DOMAIN x THEN Len(x.tuple) > 0
    ELSE TRUE

\* the images of a collection with the latest date
Latest(images) == {x \in images : \A y \in images : y.date <= x.date}

\* ee.ImageCollection.first(): a handle on one image of the collection (the
\* order among images is the backend's), on none for an empty collection
first(images) ==
    IF images = {} THEN {EeImage({})} ELSE {EeImage({x.id}) : x \in images}

\* ee.ImageCollection.median(): a handle on the composite of the images
median(images) == EeImage({x.id : x \in images})

\* ee.Image.clip on a handle
clipped(h) == [h EXCEPT !.clipped = TRUE]

\* preprocessing.py lines 14-26
speckle_smoothing(h) == [h EXCEPT !.smoothed = TRUE]

DatedImages(n, f) == {[id |-> i, date |-> f[i]] : i \in 1..n}

InitPrep ==
    /\ call \in {"get_pre_and_post_sar_images", "get_pre_and_post_s2_images"}
    \* images of the days 0 to 3, the event on day 2, a window of 1 or 2 days
    /\ \E n \in 0..MaxImages : \E f \in [1..n -> 0..3] :
            collection = DatedImages(n, f)
    /\ event_date = 2
    /\ search_window \in {1, 2}
    /\ pre_event_image = None
    /\ post_event_image = None
    /\ catalog = {}
    /\ start_date = None
    /\ end_date = None
    /\ cloud_pixel_percentage = 0
    /\ NoDetect /\ NothingComputed /\ NoRefine /\ NoArea /\ NoMain

\* lines 45 and 78: the images of [event_date - search_window, event_date)
PreWindow(images, event, window) ==
    filterDate(images, EeDate(event - window), EeDate(event))

\* lines 46 and 79: the images of [event_date, event_date + search_window)
PostWindow(images, event, window) ==
    filterDate(images, EeDate(event), EeDate(event + window))

\* get_pre_and_post_sar_images, lines 42-60
GetPreAndPostSarImages ==
    /\ call = "get_pre_and_post_sar_images"
    /\ pc = "called"
    /\ pc' = "done"
    /\ UNCHANGED <<call, event_date, search_window>>
    /\ UNCHANGED <<otsuVars, detectInputs, consistent, pre_for_processing,
                   post_for_processing, threshold_pre, threshold_post, water_pre,
                   water_post, flood_extent>>
    /\ UNCHANGED <<refineVars, areaVars, ingestVars, mainVars>>
    /\ \E pre \in first(Latest(PreWindow(collection, event_date, search_window))) :
       \E post \in first(PostWindow(collection, event_date, search_window)) :
            /\ pre_event_image' = pre
            /\ post_event_image' = post
            /\ IF ~Truthy(pre) \/ ~Truthy(post)
               THEN /\ outcome' = "ValueError"
                    /\ UNCHANGED <<result, log, reductions>>
               ELSE /\ outcome' = "returned"
                    \* lines 54-55: two size().getInfo() round trips
                    /\ reductions' = 2
                    /\ log' = <<"images selected for pre-event",
                                "images selected for post-event">>
                    /\ result' = Tuple(<<clipped(speckle_smoothing(pre)),
                                         clipped(speckle_smoothing(post))>>)

\* get_pre_and_post_s2_images, lines 75-87
GetPreAndPostS2Images ==
    /\ call = "get_pre_and_post_s2_images"
    /\ pc = "called"
    /\ pc' = "done"
    /\ UNCHANGED <<call, event_date, search_window>>
    /\ UNCHANGED <<otsuVars, detectInputs, consistent, pre_for_processing,
                   post_for_processing, threshold_pre, threshold_post, water_pre,
                   water_post, flood_extent>>
    /\ UNCHANGED <<refineVars, areaVars, ingestVars, mainVars>>
    /\ \E pre \in {clipped(median(PreWindow(collection, event_date, search_window)))} :
       \E post \in {clipped(median(PostWindow(collection, event_date, search_window)))} :
            /\ pre_event_image' = pre
            /\ post_event_image' = post
            /\ UNCHANGED <<log, reductions>>
            /\ IF ~Truthy(pre) \/ ~Truthy(post)
               THEN /\ outcome' = "ValueError"
                    /\ UNCHANGED result
               ELSE /\ outcome' = "returned"
                    /\ result' = Tuple(<<pre, post>>)

NextPrep == GetPreAndPostSarImages \/ GetPreAndPostS2Images

SpecPrep == InitPrep /\ [][NextPrep]_vars

(***************************************************************************)
(* Properties of the two preprocessing functions, checked under SpecPrep.  *)
(***************************************************************************)
PrepDone ==
    /\ pc = "done"
    /\ call \in {"get_pre_and_post_sar_images", "get_pre_and_post_s2_images"}

\* a window of the call holds no image of the collection
SomeWindowEmpty ==
    \/ PreWindow(collection, event_date, search_window) = {}
    \/ PostWindow(collection, event_date, search_window) = {}

\* C28 as stated: both functions raise ValueError whenever the pre-event or
\* the post-event window holds no image, also when the collection holds two
\* or more; a pair returned never holds an image that does not exist.
C28_Original ==
    PrepDone =>
        /\ SomeWindowEmpty => outcome = "ValueError"
        /\ outcome = "returned" =>
                Exists(result.tuple[1]) /\ Exists(result.tuple[2])

(***************************************************************************)
(* utils.load_aoi_from_geojson and main of scripts/run_flood_mapping.py.   *)
(* A run of main passes through the definition of the two AOIs, the        *)
(* Sentinel-1 branch, the Sentinel-2 branch, the summary and the           *)
(* visualization and export; pc records the stage reached.  The package    *)
(* functions main calls act on handles (EeImage); calls records each call  *)
(* and the exception it raised.                                            *)
(***************************************************************************)
\* what is found at a path: no file, a file open() cannot read, text that is
\* not JSON, JSON that ee.FeatureCollection rejects, a GeoJSON polygon
FileKinds == {"missing", "unreadable", "not_json", "not_geojson", "polygon"}

\* utils.py lines 80-86: what the body of the try raises ("none": it returns)
LoadBody(f) ==
    CASE f.file = "missing"     -> "FileNotFoundError"
      [] f.file = "unreadable"  -> "PermissionError"
      [] f.file = "not_json"    -> "JSONDecodeError"
      [] f.file = "not_geojson" -> "EEException"
      [] OTHER                  -> "none"

\* the mutant of LoadHandlers: no 'except Exception' clause
LoadHandlersTwoClauses(exc) ==
    IF exc = "FileNotFoundError" THEN "ValueError"
    ELSE IF exc = "JSONDecodeError" THEN "ValueError"
    ELSE exc

\* utils.py lines 87-92: what the three except clauses raise for exc
LoadHandlers(exc) ==
    IF exc = "FileNotFoundError" THEN "ValueError"
    ELSE IF exc = "JSONDecodeError" THEN "ValueError"
    ELSE "ValueError"

\* the geometry of the polygon file, and the default of lines 46-52, 55-61
LoadedGeometry == Geometry({"file"})
DefaultAOI == Geometry({"Lome"})

\* utils.py lines 78-92
load_aoi_from_geojson(f) ==
    IF LoadBody(f) = "none"
    THEN [raised |-> "none", value |-> LoadedGeometry]
    ELSE [raised |-> LoadHandlers(LoadBody(f)), value |-> None]

\* the exception classes 'except ValueError' catches
ValueErrors == {"ValueError", "JSONDecodeError"}

Call(fn, exc) == [fn |-> fn, raised |-> exc]

\* a handle on a band computed from the images of other handles
Band(name, ids) == [ee |-> "Image", of |-> ids, band |-> name]

\* a run of main: lines 15-17 and 79-89
InitMain ==
    /\ call = "main"
    /\ detection_method \in {"sar", "s2", "both"}
    /\ export_results \in BOOLEAN
    /\ aoi_geojson_path \in {None} \cup {[file |-> k] : k \in FileKinds}
    /\ otsu_aoi_path \in {None, [file |-> "unreadable"], [file |-> "polygon"]}
    \* the images of the backend: c1 of the day before the event, c2 of its day
    /\ \E c1 \in 0..MaxImages : \E c2 \in 0..(MaxImages - c1) :
            s1_catalog = DatedImages(c1 + c2,
                            [i \in 1..(c1 + c2) |-> IF i <= c1 THEN 1 ELSE 2])
    /\ \E c1 \in 0..MaxImages : \E c2 \in 0..(MaxImages - c1) :
            s2_catalog = DatedImages(c1 + c2,
                            [i \in 1..(c1 + c2) |-> IF i <= c1 THEN 1 ELSE 2])
    \* the event on day 2, searched one day around
    /\ event_date = 2
    /\ search_window = 1
    /\ pre_event_image = None
    /\ post_event_image = None
    /\ AOI = None
    /\ otsu_aoi_geometry = None
    /\ sar_pre_event = None
    /\ sar_post_event = None
    /\ s2_pre_event = None
    /\ s2_post_event = None
    /\ ndwi_pre_event_mask = None
    /\ ndwi_post_event_mask = None
    /\ s1_flood_extent_image = None
    /\ s1_flooded_extend_image = None
    /\ s1_flooded_area_sqkm = 0
    /\ s2_flood_extent_image = None
    /\ s2_flooded_extent_image = None
    /\ s2_flooded_area_sqkm = 0
    /\ calls = <<>>
    /\ layers = <<>>
    /\ exports = <<>>
    /\ NoDetect /\ NothingComputed /\ NoRefine /\ NoArea /\ NoIngest

\* what no stage of main changes
MainFrame ==
    /\ call = "main"
    /\ UNCHANGED <<call, detection_method, export_results, aoi_geojson_path,
                   otsu_aoi_path, s1_catalog, s2_catalog, prepVars>>
    /\ UNCHANGED <<otsuVars, detectVars, refineVars, areaVars, ingestVars>>

\* lines 40-62 and 65-74 for one path: the geometry, the call made and the
\* exception that escapes main
DefineAoi(path, default) ==
    IF ~Truthy(path)
    THEN [value |-> default, called |-> <<>>, escaped |-> "none"]
    ELSE LET r == load_aoi_from_geojson(path)
         IN  [value   |-> IF r.raised = "none" THEN r.value ELSE default,
              called  |-> <<Call("load_aoi_from_geojson", r.raised)>>,
              escaped |-> IF r.raised \in ValueErrors \cup {"none"}
                          THEN "none" ELSE r.raised]

\* lines 39-77
MainDefineAois ==
    /\ pc = "called"
    /\ MainFrame
    /\ LET a == DefineAoi(aoi_geojson_path, DefaultAOI)
           o == DefineAoi(otsu_aoi_path, None)
       IN  IF a.escaped # "none"
           THEN /\ pc' = "done"
                /\ outcome' = a.escaped
                /\ calls' = calls \o a.called
                /\ UNCHANGED <<AOI, otsu_aoi_geometry>>
           ELSE /\ AOI' = a.value
                /\ calls' = calls \o a.called \o o.called
                /\ IF o.escaped # "none"
                   THEN /\ pc' = "done"
                        /\ outcome' = o.escaped
                        /\ UNCHANGED otsu_aoi_geometry
                   ELSE /\ pc' = "aoi_defined"
                        /\ otsu_aoi_geometry' = o.value
                        /\ UNCHANGED outcome
    /\ UNCHANGED <<log, sarVars, s2Vars, layers, exports>>

\* the mutant of Runs: both branches whatever the method
RunsAlways(branch, method) == TRUE

\* lines 93, 181, 198, 205, 223: detection_method in ["sar", "both"], and
\* lines 135, 176, 201, 209, 229: detection_method in ["s2", "both"]
Runs(branch, method) == method \in {branch, "both"}

\* lines 96-99 and 138-142: the images of [event - days, event + days)
Retrieved(images) ==
    filterDate(images, EeDate(event_date - search_window),
               EeDate(event_date + search_window))

\* flood_detection.py line 233 on the value main passes: a tuple has no
\* connectedPixelCount
RefineInMain(x) ==
    IF "tuple" \in DOMAIN x
    THEN [raised |-> "AttributeError", value |-> None]
    ELSE [raised |-> "none", value |-> Band("effective_flood_extent", x.of)]

\* lines 117 and 155 call calculate_flood_extension with the positional
\* arguments args; flood_detection.py line 255 has the parameters, lines
\* 267-277 the body
CallCalculateFloodExtension(args) ==
    IF Len(args) > Len(<<"effective_flood_extent_image">>)
    THEN [raised |-> "TypeError", value |-> None]
    ELSE IF args[1] = None
    THEN [raised |-> "none", value |-> 0]
    ELSE [raised |-> "none", value |-> [sq_km_of |-> args[1]]]

\* the locals of a branch where its try block is left, and what it raised
BranchStart ==
    [raised |-> "none", pre_event |-> None, post_event |-> None,
     pre_mask |-> None, post_mask |-> None, extent |-> None, refined |-> None,
     area |-> 0, called |-> <<>>, message |-> "flooded area calculated"]

\* lines 115-120 and 153-158: refinement and area of the extent in b
RefineAndMeasure(b) ==
    IF ~Truthy(b.extent) THEN b
    ELSE LET r == RefineInMain(b.extent)
             c == [b EXCEPT !.refined = r.value,
                            !.called = @ \o <<Call("refine_flood_extent_with_topology",
                                                   r.raised)>>]
         IN  IF r.raised # "none" THEN [c EXCEPT !.raised = r.raised]
             ELSE LET m == CallCalculateFloodExtension(<<c.refined, AOI>>)
                      d == [c EXCEPT !.called = @ \o
                                <<Call("calculate_flood_extension", m.raised)>>]
                  IN  IF m.raised # "none" THEN [d EXCEPT !.raised = m.raised]
                      ELSE [d EXCEPT !.area = m.value]

\* lines 99-120: the try block of the Sentinel-1 branch, pre and post being
\* the handles first() gives for the two windows
SarTry(pre, post) ==
    IF TooFew(Cardinality(Retrieved(s1_catalog)))
    THEN [BranchStart EXCEPT !.raised = "ValueError",
             !.called = <<Call("get_sentinel1_collection", "ValueError")>>]
    ELSE IF ~Truthy(pre) \/ ~Truthy(post)
    THEN [BranchStart EXCEPT !.raised = "ValueError",
             !.called = <<Call("get_sentinel1_collection", "none"),
                          Call("get_pre_and_post_sar_images", "ValueError")>>]
    ELSE LET a == [BranchStart EXCEPT
                      !.pre_event = clipped(speckle_smoothing(pre)),
                      !.post_event = clipped(speckle_smoothing(post)),
                      !.called = <<Call("get_sentinel1_collection", "none"),
                                   Call("get_pre_and_post_sar_images", "none")>>]
         IN  IF ~(Exists(pre) /\ Exists(post))
             \* the first getInfo() on an image that does not exist
             \* (utils.py lines 116-124)
             THEN [a EXCEPT !.raised = "EEException",
                      !.called = @ \o <<Call("detect_flood_extent", "EEException")>>]
             ELSE RefineAndMeasure(
                    [a EXCEPT
                      \* flood_detection.py line 168
                      !.extent = Tuple(<<Band("water_pre", pre.of),
                                         Band("water_post", post.of),
                                         Band("flood_extent_sar",
                                              pre.of \cup post.of)>>),
                      !.called = @ \o <<Call("detect_flood_extent", "none")>>])

\* lines 142-158: the try block of the Sentinel-2 branch
S2Try(pre, post) ==
    IF TooFew(Cardinality(Retrieved(s2_catalog)))
    THEN [BranchStart EXCEPT !.raised = "ValueError",
             !.called = <<Call("get_sentinel2_collection", "ValueError")>>]
    ELSE IF ~Truthy(pre) \/ ~Truthy(post)
    THEN [BranchStart EXCEPT !.raised = "ValueError",
             !.called = <<Call("get_sentinel2_collection", "none"),
                          Call("get_pre_and_post_s2_images", "ValueError")>>]
    ELSE LET a == [BranchStart EXCEPT
                      !.pre_event = pre,
                      !.post_event = post,
                      !.pre_mask = Band("ndwi_water_pre", pre.of),
                      !.post_mask = Band("ndwi_water_post", post.of),
                      !.called = <<Call("get_sentinel2_collection", "none"),
                                   Call("get_pre_and_post_s2_images", "none")>>]
         IN  IF ~(Exists(pre) /\ Exists(post))
             \* the first getInfo() on the NDWI of a composite of no image
             THEN [a EXCEPT !.raised = "EEException",
                      !.called = @ \o <<Call("detect_flood_extent_s2_ndwi",
                                             "EEException")>>]
             ELSE RefineAndMeasure(
                    [a EXCEPT
                      \* flood_detection.py line 213
                      !.extent = Band("flood_extent_ndwi", pre.of \cup post.of),
                      !.called = @ \o <<Call("detect_flood_extent_s2_ndwi",
                                             "none")>>])

\* lines 122-130 and 160-169: the locals after the handlers of a branch,
\* and the message printed last
AfterHandlers(b) ==
    IF b.raised = "none" THEN b
    ELSE IF b.raised \in ValueErrors
    THEN [b EXCEPT !.pre_event = None, !.post_event = None, !.pre_mask = None,
                   !.post_mask = None, !.extent = None, !.refined = None,
                   !.message = "processing skipped"]
    ELSE [b EXCEPT !.extent = None, !.refined = None,
                   !.message = "error during detection or refinement"]

\* lines 93-132
MainSarBranch ==
    /\ pc = "aoi_defined"
    /\ pc' = "sar_done"
    /\ MainFrame
    /\ IF Runs("sar", detection_method)
       THEN \E pre \in first(Latest(PreWindow(Retrieved(s1_catalog),
                                              event_date, search_window))) :
            \E post \in first(PostWindow(Retrieved(s1_catalog),
                                         event_date, search_window)) :
            \E b \in {AfterHandlers(SarTry(pre, post))} :
                /\ sar_pre_event' = b.pre_event
                /\ sar_post_event' = b.post_event
                /\ s1_flood_extent_image' = b.extent
                /\ s1_flooded_extend_image' = b.refined
                /\ s1_flooded_area_sqkm' = b.area
                /\ calls' = calls \o b.called
                /\ log' = log \o <<b.message>>
       ELSE /\ log' = log \o <<"Skipping SAR-based processing">>
            /\ UNCHANGED <<sarVars, calls>>
    /\ UNCHANGED <<outcome, AOI, otsu_aoi_geometry, s2Vars, layers, exports>>

\* lines 135-171
MainS2Branch ==
    /\ pc = "sar_done"
    /\ pc' = "s2_done"
    /\ MainFrame
    /\ IF Runs("s2", detection_method)
       THEN \E pre \in {clipped(median(PreWindow(Retrieved(s2_catalog),
                                                 event_date, search_window)))} :
            \E post \in {clipped(median(PostWindow(Retrieved(s2_catalog),
                                                   event_date, search_window)))} :
            \E b \in {AfterHandlers(S2Try(pre, post))} :
                /\ s2_pre_event' = b.pre_event
                /\ s2_post_event' = b.post_event
                /\ ndwi_pre_event_mask' = b.pre_mask
                /\ ndwi_post_event_mask' = b.post_mask
                /\ s2_flood_extent_image' = b.extent
                /\ s2_flooded_extent_image' = b.refined
                /\ s2_flooded_area_sqkm' = b.area
                /\ calls' = calls \o b.called
                /\ log' = log \o <<b.message>>
       ELSE /\ log' = log \o <<"Skipping Sentinel-2 processing">>
            /\ UNCHANGED <<s2Vars, calls>>
    /\ UNCHANGED <<outcome, AOI, otsu_aoi_geometry, sarVars, layers, exports>>

\* lines 177, 179, 182, 184: the lines of the summary
SummaryLines ==
    [s2_area |-> "Flood Extent (Sentinel-2 NDWI)",
     s2_na   |-> "Sentinel-2 Flood Areas: N/A",
     sar_area |-> "Effective Flooded Area (SAR)",
     sar_na   |-> "SAR-based Flood Areas: N/A"]

\* lines 174-184
MainSummary ==
    /\ pc = "s2_done"
    /\ pc' = "summarised"
    /\ MainFrame
    /\ log' = log
        \o <<IF Runs("s2", detection_method) /\ Truthy(s2_flooded_extent_image)
             THEN SummaryLines.s2_area ELSE SummaryLines.s2_na>>
        \o <<IF Runs("sar", detection_method) /\ Truthy(s1_flooded_extend_image)
             THEN SummaryLines.sar_area ELSE SummaryLines.sar_na>>
    /\ UNCHANGED <<outcome, AOI, otsu_aoi_geometry, sarVars, s2Vars, calls, layers, exports>>

\* the names bound in main when line 212 is reached (lines 15-17, 37-89,
\* 96-97, 138-139, 189-190) and at module level (lines 8-12)
MainNames ==
    {"event_date_str", "aoi_geojson_path", "otsu_aoi_path", "sar_search_days",
     "s2_search_days", "export_results", "asset_id_prefix", "detection_method",
     "event_date", "AOI", "otsu_aoi_geometry", "sar_pre_event", "sar_post_event",
     "s2_pre_event", "s2_post_event", "ndwi_pre_event_mask",
     "ndwi_post_event_mask", "s1_flood_extent_image", "s1_flooded_extend_image",
     "s1_flooded_area_sqkm", "s2_flood_extent_image", "s2_flooded_extent_image",
     "s2_flooded_area_sqkm", "map_center", "m", "ee", "geemap", "argparse",
     "datetime", "authentication", "data_ingestion", "preprocessing",
     "flood_detection", "visualization", "utils", "main"}

\* visualization.py lines 41-42 and 55-56: the layers of the two inputs
InputLayers ==
    [sar  |-> <<"Pre-event SAR (Smoothed)", "Post-event SAR (Smoothed)">>,
     ndwi |-> <<"Pre-flood Water (NDWI)", "Post-flood Water (NDWI)">>]

If(cond, items) == IF cond THEN items ELSE <<>>

\* lines 187-238: the map, then the exports.  addLayer asks the backend for
\* the tiles of the image; for a handle on no image it raises EEException or,
\* with a map that defers the request, adds the layer.
MainVisualizeAndExport ==
    /\ pc = "summarised"
    /\ pc' = "done"
    /\ MainFrame
    /\ LET base     == <<"Main AOI">> \o If(Truthy(otsu_aoi_geometry), <<"Otsu AOI">>)
           sar_on   == /\ Runs("sar", detection_method)
                       /\ Truthy(sar_pre_event) /\ Truthy(sar_post_event)
           ndwi_on  == /\ Runs("s2", detection_method)
                       /\ Truthy(ndwi_pre_event_mask) /\ Truthy(ndwi_post_event_mask)
           sar_bad  == sar_on /\ ~(Exists(sar_pre_event) /\ Exists(sar_post_event))
           ndwi_bad == ndwi_on /\ ~(Exists(ndwi_pre_event_mask)
                                    /\ Exists(ndwi_post_event_mask))
           s1_on    == Runs("sar", detection_method) /\ Truthy(s1_flooded_extend_image)
           s2_on    == Runs("s2", detection_method) /\ Truthy(s2_flooded_extent_image)
       IN  \E sar_fails \in IF sar_bad THEN BOOLEAN ELSE {FALSE} :
           \E ndwi_fails \in IF ndwi_bad THEN BOOLEAN ELSE {FALSE} :
           IF sar_fails
           THEN /\ layers' = base
                /\ outcome' = "EEException"
                /\ UNCHANGED <<log, exports>>
           ELSE IF ndwi_fails
           THEN /\ layers' = base \o If(sar_on, InputLayers.sar)
                /\ outcome' = "EEException"
                /\ UNCHANGED <<log, exports>>
           ELSE /\ layers' = base \o If(sar_on, InputLayers.sar) \o If(ndwi_on, InputLayers.ndwi)
                        \o If(s1_on, <<"Effective Flood Extent (SAR Refined)">>)
                        \o If(s2_on, <<"Flood Extent (Sentinel-2 NDWI)">>)
                /\ IF "flood_duration_image" \notin MainNames
                   \* line 212
                   THEN /\ outcome' = "NameError"
                        /\ UNCHANGED <<log, exports>>
                   ELSE /\ outcome' = "returned"
                        \* lines 219-236
                        /\ exports' =
                            If(export_results /\ s1_on,
                               <<[image |-> s1_flooded_extend_image,
                                  description |-> "Effective_Flood_Extent_SAR"]>>)
                            \o If(export_results /\ s2_on,
                                  <<[image |-> s2_flooded_extent_image,
                                     description |-> "Flood_Extent_S2_NDWI"]>>)
                        /\ log' = log \o <<"Map ready for display">>
                                      \o <<"Flood mapping process completed.">>
    /\ UNCHANGED <<AOI, otsu_aoi_geometry, sarVars, s2Vars, calls>>

NextMain ==
    \/ MainDefineAois
    \/ MainSarBranch
    \/ MainS2Branch
    \/ MainSummary
    \/ MainVisualizeAndExport

SpecMain == InitMain /\ [][NextMain]_vars

(***************************************************************************)
(* Properties of main, checked under SpecMain.                             *)
(***************************************************************************)
\* has main called fn and did the call raise exc ('none': it returned)
CalledWith(fn, exc) == \E i \in 1..Len(calls) : calls[i] = Call(fn, exc)

\* the summary of lines 174-184 has been printed
Summarised == call = "main" /\ pc \in {"summarised", "done"} /\ AOI # None

\* a path is given and the file at it cannot be loaded
FailingFile(path) == path # None /\ path.file # "polygon"

\* C21 as stated: with detection_method 'both' the failure of one branch
\* does not abort the run, and the other branch, when its retrieval and its
\* detection succeed, has its flooded area reported instead of N/A.
C21_Original ==
    (Summarised /\ detection_method = "both") =>
        /\ (~CalledWith("detect_flood_extent", "none")
                /\ CalledWith("detect_flood_extent_s2_ndwi", "none"))
              => Logged(SummaryLines.s2_area)
        /\ (~CalledWith("detect_flood_extent_s2_ndwi", "none")
                /\ CalledWith("detect_flood_extent", "none"))
              => Logged(SummaryLines.sar_area)

\* C22: load_aoi_from_geojson raises ValueError for every file it cannot
\* load (missing, unreadable, not JSON, not GeoJSON) and nothing else; main
\* then goes on with the default main AOI, or with no Otsu geometry, and
\* every run gets past the two definitions up to the summary.
C22_LoadFailuresAreValueErrors ==
    (call = "main" /\ pc # "called") =>
        /\ \A i \in 1..Len(calls) :
                calls[i].fn = "load_aoi_from_geojson" =>
                    calls[i].raised \in {"none", "ValueError"}
        /\ FailingFile(aoi_geojson_path) =>
                /\ calls[1] = Call("load_aoi_from_geojson", "ValueError")
                /\ AOI = DefaultAOI
        /\ FailingFile(otsu_aoi_path) =>
                /\ otsu_aoi_geometry = None
                /\ \E i \in 1..2 : /\ i <= Len(calls)
                                   /\ i = IF aoi_geojson_path = None THEN 1 ELSE 2
                                   /\ calls[i] = Call("load_aoi_from_geojson",
                                                      "ValueError")
        /\ (aoi_geojson_path # None /\ ~FailingFile(aoi_geojson_path)) =>
                AOI = LoadedGeometry
        /\ (otsu_aoi_path # None /\ ~FailingFile(otsu_aoi_path)) =>
                otsu_aoi_geometry = LoadedGeometry
        /\ aoi_geojson_path = None => AOI = DefaultAOI
        /\ pc = "aoi_defined" => outcome = "none"
        /\ pc = "done" => Logged(SummaryLines.sar_na) \/ Logged(SummaryLines.sar_area)

\* both files fail, neither with FileNotFoundError or JSONDecodeError, and
\* the run has gone on to its end
C22_Witness ==
    /\ call = "main" /\ pc = "done"
    /\ aoi_geojson_path = [file |-> "not_geojson"]
    /\ otsu_aoi_path = [file |-> "unreadable"]
    /\ AOI = DefaultAOI
    /\ otsu_aoi_geometry = None
    /\ Len(layers) > 0

\* C25 as stated: in every run of main no exception escapes after the
\* detection stage: main goes through the visualization and the exports and
\* prints 'Flood mapping process completed.'.
C25_Original ==
    (call = "main" /\ pc = "done") =>
        /\ outcome = "returned"
        /\ Logged("Flood mapping process completed.")

\* C26 as stated: with detection_method 'sar', two or more images retrieved
\* and detect_flood_extent returning normally, the extent is refined, the
\* refined image is not None when the branch ends and the summary prints
\* the SAR area, not 'N/A'.
C26_Original ==
    (/\ call = "main" /\ detection_method = "sar"
     /\ pc \in {"sar_done", "s2_done", "summarised", "done"}
     /\ CalledWith("get_sentinel1_collection", "none")
     /\ CalledWith("detect_flood_extent", "none")) =>
        /\ CalledWith("refine_flood_extent_with_topology", "none")
        /\ s1_flooded_extend_image # None
        /\ Summarised => Logged(SummaryLines.sar_area) /\ ~Logged(SummaryLines.sar_na)

S1Functions ==
    {"get_sentinel1_collection", "get_pre_and_post_sar_images", "detect_flood_extent"}

S2Functions ==
    {"get_sentinel2_collection", "get_pre_and_post_s2_images",
     "detect_flood_extent_s2_ndwi"}

InSeq(x, seq) == \E i \in 1..Len(seq) : seq[i] = x

\* C29: with detection_method 's2' main makes no Sentinel-1 retrieval,
\* detection or refinement, adds no SAR layer and starts no SAR export; the
\* SAR result variables keep their initial values (images None, area 0.0)
\* and the SAR summary line is 'N/A'.  The same holds for the Sentinel-2
\* side with detection_method 'sar'.
C29_UnselectedModalityUntouched ==
    call = "main" =>
        /\ detection_method = "s2" =>
            /\ \A i \in 1..Len(calls) : calls[i].fn \notin S1Functions
            /\ sar_pre_event = None /\ sar_post_event = None
            /\ s1_flood_extent_image = None /\ s1_flooded_extend_image = None
            /\ s1_flooded_area_sqkm = 0
            /\ \A i \in 1..Len(layers) :
                    /\ ~InSeq(layers[i], InputLayers.sar)
                    /\ layers[i] # "Effective Flood Extent (SAR Refined)"
            /\ \A i \in 1..Len(exports) :
                    exports[i].description # "Effective_Flood_Extent_SAR"
            /\ Summarised => Logged(SummaryLines.sar_na) /\ ~Logged(SummaryLines.sar_area)
            \* one refinement at most, that of the Sentinel-2 extent
            /\ Cardinality({i \in 1..Len(calls) :
                    calls[i].fn = "refine_flood_extent_with_topology"}) <= 1
        /\ detection_method = "sar" =>
            /\ \A i \in 1..Len(calls) : calls[i].fn \notin S2Functions
            /\ s2_pre_event = None /\ s2_post_event = None
            /\ ndwi_pre_event_mask = None /\ ndwi_post_event_mask = None
            /\ s2_flood_extent_image = None /\ s2_flooded_extent_image = None
            /\ s2_flooded_area_sqkm = 0
            /\ \A i \in 1..Len(layers) :
                    /\ ~InSeq(layers[i], InputLayers.ndwi)
                    /\ layers[i] # "Flood Extent (Sentinel-2 NDWI)"
            /\ \A i \in 1..Len(exports) :
                    exports[i].description # "Flood_Extent_S2_NDWI"
            /\ Summarised => Logged(SummaryLines.s2_na) /\ ~Logged(SummaryLines.s2_area)
            /\ Cardinality({i \in 1..Len(calls) :
                    calls[i].fn = "refine_flood_extent_with_topology"}) <= 1

\* a Sentinel-2 run to its end over a backend with Sentinel-1 images for
\* both windows, in which the Sentinel-2 detection has run
C29_Witness ==
    /\ call = "main" /\ pc = "done"
    /\ detection_method = "s2"
    /\ Cardinality(s1_catalog) = 2
    /\ \E x, y \in s1_catalog : x.date = 1 /\ y.date = 2
    /\ CalledWith("detect_flood_extent_s2_ndwi", "none")
    /\ Len(layers) > 1
    /\ Logged(SummaryLines.sar_na)

(***************************************************************************)
(* All the functions together: a run is one call of any of them.           *)
(***************************************************************************)
Init ==
    \/ InitOtsu \/ InitDetect \/ InitRefine \/ InitArea \/ InitIngest
    \/ InitPrep \/ InitMain

Next ==
    \/ NextOtsu \/ NextDetect \/ NextRefine \/ NextArea \/ NextIngest
    \/ NextPrep \/ NextMain

Spec == Init /\ [][Next]_vars

====
